---- MODULE Spec2Model ----
(***************************************************************************)
(* A model of the XFS manager support runtime of tinternet/xfsrs: the      *)
(* quota-bounded buffer heap (xfslib/src/heap.rs, xfslib/src/supp.rs), the *)
(* timer-slot registry (xfslib/src/supp.rs, xfslib/src/timer.rs,           *)
(* xfs_mgr/src/lib.rs), the session table (xfs_mgr/src/manager.rs,         *)
(* service.rs, lib.rs) and the blocked-thread map of the synchronous       *)
(* wrappers (xfs_mgr/src/lib.rs).                                          *)
(***************************************************************************)
EXTENDS Integers, Sequences, FiniteSets, TLC

(***************************************************************************)
(* Buffer heap: constants and input domains                                *)
(***************************************************************************)

\* heap.rs:10  const MAX_HEAP_SIZE: usize = 1 * 1000 * 1000 * 1000
MAX_HEAP_SIZE == 1000000000

\* The null pointer.
NULL == 0

\* heap.rs:54  allocation.buffer.as_mut_ptr(): a Vec<u8> of length 0 owns no
\* memory, and its pointer is the dangling, well-aligned address
\* align_of::<u8>() = 1, the same for every empty buffer.
DANGLING == 1

\* Number of distinct addresses the system allocator can hand out for
\* non-empty buffers in the model.
MaxAddr == 2

\* Longest child list of one root in the model.
MaxChild == 1

\* Addresses of non-empty buffers.
HeapAddrs == (DANGLING + 1)..(DANGLING + MaxAddr)

\* Every pointer value a caller can pass.
Pointers == {NULL, DANGLING} \cup HeapAddrs

\* Requested sizes: empty, two sizes that together fill the quota exactly,
\* and the first size above the quota (the tests' MAX_HEAP_SIZE + 1).
Sizes == {0, 400000000, 600000000, MAX_HEAP_SIZE + 1}

\* ulFlags values. The flags word is stored in the Allocation and copied to
\* its children; no branch of the heap reads it.
Flags == {"WFS_MEM_ZEROINIT"}

VARIABLES
    allocations,   \* Heap.allocations: root pointer -> Allocation
    total_bytes,   \* Heap.total_bytes: the shared outstanding-bytes counter
    hcall,         \* the last heap entry point called, its arguments and result
    handed,        \* history: root pointers returned by allocate, not yet freed
    freed,         \* history: root pointers freed and not handed out since
    former         \* history: children released with their root, not handed out since

heapVars == <<allocations, total_bytes, hcall, handed, freed, former>>

VARIABLES
    TIMERS,        \* the slot table: slot -> the Timer box it holds, or NULL
    boxes,         \* every Timer box allocated so far, by box number
    platform,      \* the platform timers registered (SetTimer) and not killed
    posted,        \* the WFS_TIMER_EVENT messages posted so far
    pc,            \* per thread: where it is inside set_timer / kill_timer
    tcall          \* the timer call that took the last step, and its result

timerVars == <<TIMERS, boxes, platform, posted, pc, tcall>>

VARIABLES
    SERVICES,         \* the session table: entry -> the Service it holds, or NULL
    STARTED,          \* lib.rs: whether WFSStartUp has been called
    BLOCKED_THREADS,  \* lib.rs: thread -> cancel flag, for the threads in the map
    wpc,              \* lib.rs: per thread, where it is inside a synchronous wrapper
    mcall             \* the manager call that took the last step, and its result

mgrVars == <<SERVICES, STARTED, BLOCKED_THREADS, wpc, mcall>>

VARIABLES
    APP_HANDLES,    \* lib.rs: the app-handle table, slot -> claimed
    BUFFERS,        \* lib.rs: root pointer -> the pointers allocated under it
    BLOCKING_HOOK,  \* lib.rs: the installed blocking hook, or None
    locks,          \* mutex -> the thread holding its guard, or NoThread
    windows,        \* thread -> the SyncWindow of its synchronous call
    requests        \* the requests dispatched to a provider and not completed

libVars == <<APP_HANDLES, BUFFERS, BLOCKING_HOOK, locks, windows, requests>>

(***************************************************************************)
(* Buffer heap: the Allocation type and Heap's methods                     *)
(***************************************************************************)

\* Allocation::new: a buffer of `size` bytes at `ptr`, no children.
\* (A child is an Allocation too; allocate_more only ever pushes onto a
\* root, so a child's own child list stays empty and is not represented.)
Allocation(ptr, size, flags) ==
    [ptr |-> ptr, size |-> size, flags |-> flags, child |-> <<>>]

\* A drop that forgets the children.
DropBytesRootOnly(a) == a.size

RECURSIVE SumSizes(_)
SumSizes(s) == IF s = <<>> THEN 0 ELSE Head(s).size + SumSizes(Tail(s))

\* impl Drop for Allocation: dropping an allocation subtracts its buffer's
\* length from the counter, and then its `child` vector is dropped, which
\* drops every child the same way.
DropBytes(a) == a.size + SumSizes(a.child)

\* Pointers of the children a root owns.
ChildPtrs(a) == {a.child[i].ptr : i \in 1..Len(a.child)}

\* Addresses of the non-empty buffers that are alive.
LiveAddrs ==
    UNION {({allocations[p].ptr} \cup ChildPtrs(allocations[p])) \cap HeapAddrs
           : p \in DOMAIN allocations}

\* vec![0; size] followed by as_mut_ptr(): an empty buffer has the dangling
\* address, a non-empty one any address no live buffer occupies.
NewPointers(size) == IF size = 0 THEN {DANGLING} ELSE HeapAddrs \ LiveAddrs

\* A reservation that adds first and tests afterwards.
try_allocate_add_first(total, size) ==
    [ok |-> total + size <= MAX_HEAP_SIZE, total |-> total + size]

\* A reservation without the quota test.
try_allocate_no_quota(total, size) == [ok |-> TRUE, total |-> total + size]

\* Heap::try_allocate: fetch_update with checked_add and the quota test.
\* (checked_add overflowing usize gives None as well, the same outcome as
\* exceeding the quota, so the sum is taken in the integers.)
try_allocate(total, size) ==
    IF total + size > MAX_HEAP_SIZE
    THEN [ok |-> FALSE, total |-> total]
    ELSE [ok |-> TRUE, total |-> total + size]

\* HashMap::insert: the value stored under an existing key is replaced.
MapInsert(map, key, value) ==
    [k \in DOMAIN map \cup {key} |-> IF k = key THEN value ELSE map[k]]

\* A lookup in place of the removal.
MapKeep(map, key) == map

\* HashMap::remove.
MapRemove(map, key) == [k \in DOMAIN map \ {key} |-> map[k]]

\* The record of a call: entry point, arguments, HRESULT, pointer written
\* to *data (NULL when nothing is written). For free, `cur` is the pointer
\* passed and `dataNull` tells that it is null.
HCall(op, size, original, dataNull, cur, ret, out) ==
    [op |-> op, size |-> size, original |-> original, dataNull |-> dataNull,
     cur |-> cur, ret |-> ret, out |-> out]

\* xfs_reject!: return the error, nothing written.
HReject(op, size, original, dataNull, cur, ret) ==
    /\ hcall' = HCall(op, size, original, dataNull, cur, ret, NULL)
    /\ UNCHANGED <<allocations, total_bytes, handed, freed, former>>

\* try_allocate returned Err: the counter is what fetch_update left.
HOutOfMemory(op, size, original, dataNull, cur, r) ==
    /\ hcall' = HCall(op, size, original, dataNull, cur, "WFS_ERR_OUT_OF_MEMORY", NULL)
    /\ total_bytes' = r.total
    /\ UNCHANGED <<allocations, handed, freed, former>>

\* heap::allocate_buffer -> Heap::allocate_buffer, under HEAP's mutex.
\* dataNull: the output slot `data` is null.
AllocateBuffer(size, flags, dataNull) ==
    /\ UNCHANGED <<timerVars, mgrVars, libVars>>
    /\ IF dataNull
       THEN HReject("allocate", size, NULL, dataNull, NULL, "WFS_ERR_INVALID_POINTER")
       ELSE LET r == try_allocate(total_bytes, size) IN
            IF ~r.ok
            THEN HOutOfMemory("allocate", size, NULL, dataNull, NULL, r)
            ELSE \E pointer \in NewPointers(size) :
                   LET dropped == IF pointer \in DOMAIN allocations
                                  THEN DropBytes(allocations[pointer]) ELSE 0
                   IN /\ allocations' =
                           MapInsert(allocations, pointer, Allocation(pointer, size, flags))
                      /\ total_bytes' = r.total - dropped
                      /\ hcall' = HCall("allocate", size, NULL, dataNull, NULL,
                                        "WFS_SUCCESS", pointer)
                      /\ handed' = handed \cup {pointer}
                      /\ freed' = freed \ {pointer}
                      /\ former' = former \ {pointer}

\* heap::allocate_more -> Heap::allocate_more, under HEAP's mutex.
\* cur: the pointer the output slot holds before the call (*data).
AllocateMore(size, original, dataNull, cur) ==
    /\ UNCHANGED <<timerVars, mgrVars, libVars>>
    /\ IF dataNull \/ original = NULL
       THEN HReject("allocate_more", size, original, dataNull, cur, "WFS_ERR_INVALID_POINTER")
       ELSE IF cur = original
       THEN HReject("allocate_more", size, original, dataNull, cur, "WFS_ERR_INVALID_POINTER")
       ELSE IF original \notin DOMAIN allocations
       THEN HReject("allocate_more", size, original, dataNull, cur, "WFS_ERR_INVALID_BUFFER")
       ELSE LET flags == allocations[original].flags
                r == try_allocate(total_bytes, size)
            IN IF ~r.ok
               THEN HOutOfMemory("allocate_more", size, original, dataNull, cur, r)
               ELSE /\ Len(allocations[original].child) < MaxChild
                    /\ \E pointer \in NewPointers(size) :
                         /\ allocations' =
                              [allocations EXCEPT ![original].child =
                                 Append(@, Allocation(pointer, size, flags))]
                         /\ total_bytes' = r.total
                         /\ hcall' = HCall("allocate_more", size, original, dataNull, cur,
                                           "WFS_SUCCESS", pointer)
                         /\ freed' = freed \ {pointer}
                         /\ former' = former \ {pointer}
                         /\ UNCHANGED handed

\* heap::free_buffer -> Heap::deallocate, under HEAP's mutex.
FreeBuffer(data) ==
    /\ UNCHANGED <<timerVars, mgrVars, libVars>>
    /\ IF data = NULL
       THEN HReject("free", 0, NULL, TRUE, data, "WFS_ERR_INVALID_POINTER")
       ELSE IF data \notin DOMAIN allocations
       THEN HReject("free", 0, NULL, FALSE, data, "WFS_ERR_INVALID_BUFFER")
       ELSE /\ allocations' = MapRemove(allocations, data)
            /\ total_bytes' = total_bytes - DropBytes(allocations[data])
            /\ hcall' = HCall("free", 0, NULL, FALSE, data, "WFS_SUCCESS", NULL)
            /\ handed' = handed \ {data}
            /\ freed' = freed \cup {data}
            /\ former' = former \cup ChildPtrs(allocations[data])

HeapNext ==
    \/ \E size \in Sizes, flags \in Flags, dataNull \in BOOLEAN :
         AllocateBuffer(size, flags, dataNull)
    \/ \E size \in Sizes, original \in Pointers, dataNull \in BOOLEAN :
         \E cur \in (IF dataNull THEN {NULL} ELSE {NULL, original}) :
            AllocateMore(size, original, dataNull, cur)
    \/ \E data \in Pointers : FreeBuffer(data)

(***************************************************************************)
(* Timer registry of supp.rs: lock-free slot table of AtomicPtr<Timer>     *)
(***************************************************************************)

\* Stands for WORD::MAX = 65535: timer ids are the WORDs 0..WORD_MAX, and
\* supp.rs:26 builds TIMERS with one slot for each of 1..WORD_MAX.
WORD_MAX == 2

\* Timers allocated (Box::new in set_timer) in one run.
MaxTimers == 2

\* The application threads calling set_timer / kill_timer concurrently.
Threads == {"t1", "t2"}

\* Window handles: null, two windows, and a non-null handle that is no
\* window, for which the platform's SetTimer returns 0.
Windows == {"wndA", "wndB"}
Hwnds == {"null", "stale"} \cup Windows

\* supp.rs:26  TIMERS: slot i holds the Timer of timer id i (TIMERS[i - 1]).
SuppSlots == 1..WORD_MAX

Idle == [st |-> "idle", box |-> NULL, id |-> NULL]

\* The record of the timer call that took a step; `id` is the id passed
\* (kill_timer, timer_proc) or written to *lpw_timer_id (set_timer, NULL if
\* none), `ret` its result, "PENDING" while the call has not returned.
TCall(op, id, ret) == [op |-> op, id |-> id, ret |-> ret]

\* Box::new(Timer { hwnd, context }), with the history of the box: the slot
\* it was stored to, how often timer_proc and kill_timer took it out of the
\* table, how often it was freed, and whether its set_timer returned success.
NewTimer(hwnd) ==
    [hwnd |-> hwnd, id |-> NULL, fire |-> 0, kill |-> 0, frees |-> 0, set |-> FALSE]

\* A compare-and-set that stores without comparing.
compare_exchange_blind(slots, i, new) ==
    [ok |-> TRUE, slots |-> [slots EXCEPT ![i] = new]]

\* AtomicPtr::compare_exchange(null, new): stores only over an empty slot.
compare_exchange(slots, i, new) ==
    IF slots[i] = NULL
    THEN [ok |-> TRUE, slots |-> [slots EXCEPT ![i] = new]]
    ELSE [ok |-> FALSE, slots |-> slots]

\* A read of the slot that leaves the pointer in it.
load_only(slots, i) == [old |-> slots[i], slots |-> slots]

\* AtomicPtr::swap(null): empties the slot and returns what it held.
swap_null(slots, i) == [old |-> slots[i], slots |-> [slots EXCEPT ![i] = NULL]]

\* Box::from_raw(ptr) going out of scope.
FreeBox(bs, b) == [bs EXCEPT ![b].frees = @ + 1]

\* The timer state after a step.
TimersBecome(slots, bs, pcs) ==
    /\ TIMERS' = slots
    /\ pc' = pcs
    /\ boxes' = bs

\* One compare_exchange of the scan `TIMERS.iter().position(..)` by thread t
\* for its box b at slot i: claimed, or on to the next slot, or (no slot
\* left) the box is freed and set_timer returns WFS_ERR_INTERNAL_ERROR.
ScanStep(t, b, i, bs) ==
    LET r == compare_exchange(TIMERS, i, b) IN
    /\ UNCHANGED <<platform, posted>>
    /\ IF r.ok
       THEN /\ TimersBecome(r.slots, [bs EXCEPT ![b].id = i],
                            [pc EXCEPT ![t] = [st |-> "register", box |-> b, id |-> i]])
            /\ tcall' = TCall("set_timer", NULL, "PENDING")
       ELSE IF i < WORD_MAX
       THEN /\ TimersBecome(r.slots, bs,
                            [pc EXCEPT ![t] = [st |-> "scan", box |-> b, id |-> i + 1]])
            /\ tcall' = TCall("set_timer", NULL, "PENDING")
       ELSE /\ TimersBecome(r.slots, FreeBox(bs, b), [pc EXCEPT ![t] = Idle])
            /\ tcall' = TCall("set_timer", NULL, "WFS_ERR_INTERNAL_ERROR")

\* supp::set_timer up to its first compare_exchange: the argument checks,
\* Box::new, and the compare_exchange on the first slot.
SetTimer(t, hwnd, idNull, dw_time_val) ==
    /\ UNCHANGED <<heapVars, mgrVars, libVars>>
    /\ pc[t].st = "idle"
    /\ IF hwnd = "null" \/ idNull \/ dw_time_val = 0
       THEN /\ tcall' = TCall("set_timer", NULL,
                              IF hwnd = "null" THEN "WFS_ERR_INVALID_HWND"
                              ELSE IF idNull THEN "WFS_ERR_INVALID_POINTER"
                              ELSE "WFS_ERR_INVALID_DATA")
            /\ UNCHANGED <<TIMERS, boxes, platform, posted, pc>>
       ELSE /\ Len(boxes) < MaxTimers
            /\ ScanStep(t, Len(boxes) + 1, 1, Append(boxes, NewTimer(hwnd)))

\* supp::set_timer: the next compare_exchange of the scan.
SetTimerScan(t) ==
    /\ UNCHANGED <<heapVars, mgrVars, libVars>>
    /\ pc[t].st = "scan"
    /\ ScanStep(t, pc[t].box, pc[t].id, boxes)

\* supp::set_timer after the claim: SetTimer(h_wnd, timer_id, ..); on 0 the
\* slot is stored null and the box freed, else the id is written.
SetTimerRegister(t) ==
    /\ UNCHANGED <<heapVars, mgrVars, libVars>>
    /\ pc[t].st = "register"
    /\ LET b == pc[t].box
           id == pc[t].id
       IN IF boxes[b].hwnd \in Windows
          THEN /\ platform' = platform \cup {<<boxes[b].hwnd, id>>}
               /\ TimersBecome(TIMERS, [boxes EXCEPT ![b].set = TRUE],
                               [pc EXCEPT ![t] = Idle])
               /\ tcall' = TCall("set_timer", id, "WFS_SUCCESS")
          ELSE /\ TimersBecome([TIMERS EXCEPT ![id] = NULL], FreeBox(boxes, b),
                               [pc EXCEPT ![t] = Idle])
               /\ tcall' = TCall("set_timer", NULL, "WFS_ERR_INTERNAL_ERROR")
               /\ UNCHANGED platform
    /\ UNCHANGED posted

\* supp::kill_timer up to its swap: id 0 and an empty slot are rejected.
KillTimer(t, w_timer_id) ==
    /\ UNCHANGED <<heapVars, mgrVars, libVars>>
    /\ pc[t].st = "idle"
    /\ IF w_timer_id = 0
       THEN /\ tcall' = TCall("kill_timer", w_timer_id, "WFS_ERR_INVALID_TIMER")
            /\ UNCHANGED <<TIMERS, boxes, platform, posted, pc>>
       ELSE LET r == swap_null(TIMERS, w_timer_id) IN
            /\ UNCHANGED <<platform, posted>>
            /\ IF r.old = NULL
               THEN /\ tcall' = TCall("kill_timer", w_timer_id, "WFS_ERR_INVALID_TIMER")
                    /\ TimersBecome(r.slots, boxes, pc)
               ELSE /\ TimersBecome(r.slots, [boxes EXCEPT ![r.old].kill = @ + 1],
                                    [pc EXCEPT ![t] = [st |-> "kill", box |-> r.old,
                                                       id |-> w_timer_id]])
                    /\ tcall' = TCall("kill_timer", w_timer_id, "PENDING")

\* supp::kill_timer after the swap: Box::from_raw, KillTimer(timer.hwnd, id).
KillTimerFinish(t) ==
    /\ UNCHANGED <<heapVars, mgrVars, libVars>>
    /\ pc[t].st = "kill"
    /\ platform' = platform \ {<<boxes[pc[t].box].hwnd, pc[t].id>>}
    /\ TimersBecome(TIMERS, FreeBox(boxes, pc[t].box), [pc EXCEPT ![t] = Idle])
    /\ tcall' = TCall("kill_timer", pc[t].id, "WFS_SUCCESS")
    /\ UNCHANGED posted

\* set_timer::timer_proc, called by the platform at every tick of a
\* registered timer (hwnd, id_event): swap the slot, and if it held a Timer,
\* take the box and post its context to hwnd. The context of a Timer is
\* modelled by its box, so a message names the set_timer call it carries.
TimerProc(hwnd, id_event) ==
    /\ UNCHANGED <<heapVars, mgrVars, libVars>>
    /\ <<hwnd, id_event>> \in platform
    /\ LET r == swap_null(TIMERS, id_event) IN
       IF r.old = NULL
       THEN /\ tcall' = TCall("timer_proc", id_event, "NOTHING_POSTED")
            /\ TimersBecome(r.slots, boxes, pc)
            /\ UNCHANGED posted
       ELSE /\ tcall' = TCall("timer_proc", id_event, "POSTED")
            /\ TimersBecome(r.slots,
                            FreeBox([boxes EXCEPT ![r.old].fire = @ + 1], r.old), pc)
            /\ posted' = posted \cup {[hwnd |-> hwnd, id |-> id_event, context |-> r.old]}
    /\ UNCHANGED platform

TimersNext ==
    \/ \E t \in Threads, hwnd \in Hwnds, idNull \in BOOLEAN, dw_time_val \in {0, 1} :
         SetTimer(t, hwnd, idNull, dw_time_val)
    \/ \E t \in Threads : SetTimerScan(t)
    \/ \E t \in Threads : SetTimerRegister(t)
    \/ \E t \in Threads, w_timer_id \in 0..WORD_MAX : KillTimer(t, w_timer_id)
    \/ \E t \in Threads : KillTimerFinish(t)
    \/ \E hwnd \in Windows, id_event \in SuppSlots : TimerProc(hwnd, id_event)

(***************************************************************************)
(* Timer registry of timer.rs: Mutex<Vec<Option<Timer>>>                   *)
(***************************************************************************)

\* timer.rs:66  TIMERS has one entry for each of (1..WORD::MAX), which is
\* WORD_MAX - 1 entries; entry i holds the timer of id i (timers[i - 1]).
TimerRsSlots == 1..(WORD_MAX - 1)

\* The thread that runs the message loop of the windows, hence timer_proc.
MsgLoop == "loop"

\* Drop for Timer: KillTimer(self.wnd, self.timer_id); the platform timer of
\* a Timer is identified by its TimerContext box.
DropTimer(plat, bs, b) == plat \ {<<bs[b].hwnd, b>>}

\* timer::set_timer, under the TIMERS mutex: the argument checks, the first
\* None entry, Timer::new (its Err becomes WFS_ERR_INTERNAL_ERROR in
\* xfs_unwrap!), the id written, the entry stored.
TimerRsSetTimer(hwnd, idNull, dw_time_val) ==
    /\ UNCHANGED <<heapVars, mgrVars, libVars, posted, pc>>
    /\ LET free == {i \in DOMAIN TIMERS : TIMERS[i] = NULL} IN
       IF hwnd = "null" \/ idNull
       THEN /\ tcall' = TCall("set_timer", NULL,
                              IF hwnd = "null" THEN "WFS_ERR_INVALID_HWND"
                              ELSE "WFS_ERR_INVALID_POINTER")
            /\ UNCHANGED <<TIMERS, boxes, platform>>
       ELSE IF free = {} \/ dw_time_val = 0
       THEN /\ tcall' = TCall("set_timer", NULL, "WFS_ERR_INTERNAL_ERROR")
            /\ UNCHANGED <<TIMERS, boxes, platform>>
       ELSE /\ Len(boxes) < MaxTimers
            /\ LET b == Len(boxes) + 1
                   timer_id == CHOOSE i \in free : \A k \in free : i <= k
               IN IF hwnd \in Windows
                  THEN /\ boxes' = Append(boxes, [NewTimer(hwnd) EXCEPT
                                                    !.id = timer_id, !.set = TRUE])
                       /\ platform' = platform \cup {<<hwnd, b>>}
                       /\ TIMERS' = [TIMERS EXCEPT ![timer_id] = b]
                       /\ tcall' = TCall("set_timer", timer_id, "WFS_SUCCESS")
                  ELSE /\ boxes' = Append(boxes, FreeBox(<<NewTimer(hwnd)>>, 1)[1])
                       /\ tcall' = TCall("set_timer", NULL, "WFS_ERR_INTERNAL_ERROR")
                       /\ UNCHANGED <<TIMERS, platform>>

\* timer::kill_timer, under the TIMERS mutex. timers[timer_id] with
\* timer_id = w_timer_id - 1 is an indexing of the Vec: past its end it
\* panics instead of returning.
TimerRsKillTimer(w_timer_id) ==
    /\ UNCHANGED <<heapVars, mgrVars, libVars, posted, pc>>
    /\ IF w_timer_id = 0
       THEN /\ tcall' = TCall("kill_timer", w_timer_id, "WFS_ERR_INVALID_TIMER")
            /\ UNCHANGED <<TIMERS, boxes, platform>>
       ELSE IF w_timer_id \notin DOMAIN TIMERS
       THEN /\ tcall' = TCall("kill_timer", w_timer_id, "PANIC")
            /\ UNCHANGED <<TIMERS, boxes, platform>>
       ELSE IF TIMERS[w_timer_id] = NULL
       THEN /\ tcall' = TCall("kill_timer", w_timer_id, "WFS_ERR_INVALID_TIMER")
            /\ UNCHANGED <<TIMERS, boxes, platform>>
       ELSE /\ TIMERS' = [TIMERS EXCEPT ![w_timer_id] = NULL]
            /\ boxes' = [boxes EXCEPT ![TIMERS[w_timer_id]].kill = @ + 1]
            /\ platform' = DropTimer(platform, boxes, TIMERS[w_timer_id])
            /\ tcall' = TCall("kill_timer", w_timer_id, "WFS_SUCCESS")

\* Timer::new::timer_proc up to the callback, at a tick of the platform
\* timer (wnd, id_event): the TimerContext box is taken and its context
\* posted to wnd with id_event.
TimerRsProc(wnd, id_event) ==
    /\ UNCHANGED <<heapVars, mgrVars, libVars, TIMERS, platform>>
    /\ <<wnd, id_event>> \in platform
    /\ tcall' = TCall("timer_proc", boxes[id_event].id, "PENDING")
    /\ pc[MsgLoop].st = "idle"
    /\ boxes' = FreeBox([boxes EXCEPT ![id_event].fire = @ + 1], id_event)
    /\ posted' = posted \cup {[hwnd |-> wnd, id |-> id_event, context |-> id_event]}
    /\ pc' = [pc EXCEPT ![MsgLoop] = [st |-> "callback", box |-> id_event,
                                      id |-> boxes[id_event].id]]

\* The callback of set_timer, run by timer_proc: get_timers()[timer_id] =
\* None, which drops the Timer that is in the entry at that time.
TimerRsCallback ==
    /\ UNCHANGED <<heapVars, mgrVars, libVars, boxes, posted>>
    /\ pc[MsgLoop].st = "callback"
    /\ LET timer_id == pc[MsgLoop].id IN
       /\ TIMERS' = [TIMERS EXCEPT ![timer_id] = NULL]
       /\ platform' = IF TIMERS[timer_id] = NULL THEN platform
                      ELSE DropTimer(platform, boxes, TIMERS[timer_id])
       /\ tcall' = TCall("timer_proc", timer_id, "POSTED")
    /\ pc' = [pc EXCEPT ![MsgLoop] = Idle]

TimerRsNext ==
    \/ \E hwnd \in Hwnds, idNull \in BOOLEAN, dw_time_val \in {0, 1} :
         TimerRsSetTimer(hwnd, idNull, dw_time_val)
    \/ \E w_timer_id \in 0..WORD_MAX : TimerRsKillTimer(w_timer_id)
    \/ \E wnd \in Windows, id_event \in 1..MaxTimers : TimerRsProc(wnd, id_event)
    \/ TimerRsCallback

(***************************************************************************)
(* Timer registry of xfs_mgr/lib.rs: Mutex<Vec<Option<Timer>>>             *)
(***************************************************************************)

\* Ticks of one platform timer that are followed.
MaxTicks == 2

\* Entries that Vec::insert adds to the table in one run.
MaxInserts == 1

\* Vec::insert(index, element): the elements from index on shift right.
VecInsert(v, index, element) ==
    SubSeq(v, 1, index - 1) \o <<element>> \o SubSeq(v, index, Len(v))

\* An assignment to the entry instead of an insertion.
VecSet(v, index, element) == [v EXCEPT ![index] = element]

\* WFMSetTimer, under the TIMERS mutex: the argument checks, the first None
\* entry `free` (id free + 1), SetTimer(hWnd, id_event, ..) whose result is
\* stored unchecked as timer_id (0 when the platform refuses), the Timer
\* stored, the id written.
WFMSetTimer(hWnd, idNull, dwTimeVal) ==
    /\ UNCHANGED <<heapVars, mgrVars, libVars, posted, pc>>
    /\ LET free == {i \in DOMAIN TIMERS : TIMERS[i] = NULL} IN
       IF hWnd = "null" \/ idNull \/ dwTimeVal = 0
       THEN /\ tcall' = TCall("set_timer", NULL,
                              IF hWnd = "null" THEN "WFS_ERR_INVALID_HWND"
                              ELSE IF idNull THEN "WFS_ERR_INVALID_POINTER"
                              ELSE "WFS_ERR_INVALID_DATA")
            /\ UNCHANGED <<TIMERS, boxes, platform>>
       ELSE IF free = {}
       THEN /\ tcall' = TCall("set_timer", NULL, "WFS_ERR_INTERNAL_ERROR")
            /\ UNCHANGED <<TIMERS, boxes, platform>>
       ELSE /\ Len(boxes) < MaxTimers
            /\ LET id == CHOOSE i \in free : \A k \in free : i <= k IN
               /\ boxes' = Append(boxes, [NewTimer(hWnd) EXCEPT !.id = id, !.set = TRUE])
               /\ TIMERS' = [TIMERS EXCEPT ![id] = Len(boxes) + 1]
               /\ platform' = IF hWnd \in Windows THEN platform \cup {<<hWnd, id>>}
                              ELSE platform
               /\ tcall' = TCall("set_timer", id, "WFS_SUCCESS")

\* WFMKillTimer, under the TIMERS mutex. `wTimerID as usize - 1` overflows
\* for id 0: a panic in a build with overflow checks, else an index no Vec
\* has. KillTimer(null, timer.timer_id) names no window, and its result
\* `killed` is the platform's; on success Vec::insert puts a None in front
\* of the entry.
WFMKillTimer(wTimerID, overflow_checks, killed) ==
    /\ UNCHANGED <<heapVars, mgrVars, libVars, posted, pc, platform>>
    /\ IF wTimerID = 0 /\ overflow_checks
       THEN /\ tcall' = TCall("kill_timer", wTimerID, "PANIC")
            /\ UNCHANGED <<TIMERS, boxes>>
       ELSE IF wTimerID \notin DOMAIN TIMERS \/ TIMERS[wTimerID] = NULL
       THEN /\ tcall' = TCall("kill_timer", wTimerID, "WFS_ERR_INVALID_TIMER")
            /\ UNCHANGED <<TIMERS, boxes>>
       ELSE IF ~killed
       THEN /\ tcall' = TCall("kill_timer", wTimerID, "WFS_ERR_INTERNAL_ERROR")
            /\ UNCHANGED <<TIMERS, boxes>>
       ELSE /\ Len(TIMERS) < WORD_MAX + MaxInserts
            /\ TIMERS' = VecInsert(TIMERS, wTimerID, NULL)
            /\ boxes' = [boxes EXCEPT ![TIMERS[wTimerID]].kill = @ + 1]
            /\ tcall' = TCall("kill_timer", wTimerID, "WFS_SUCCESS")

\* WFMSetTimer::timer_proc, at a tick of the platform timer (hwnd, id_event):
\* the entry at id_event's index is unwrapped (a panic on None) and its
\* context posted to its hwnd; the entry and the platform timer stay.
WFMTimerProc(hwnd, id_event) ==
    /\ UNCHANGED <<heapVars, mgrVars, libVars, TIMERS, platform, pc>>
    /\ <<hwnd, id_event>> \in platform
    /\ IF TIMERS[id_event] = NULL
       THEN /\ tcall' = TCall("timer_proc", id_event, "PANIC")
            /\ UNCHANGED <<boxes, posted>>
       ELSE LET b == TIMERS[id_event] IN
            /\ boxes[b].fire < MaxTicks
            /\ boxes' = [boxes EXCEPT ![b].fire = @ + 1]
            /\ posted' = posted \cup
                 {[hwnd |-> boxes[b].hwnd, id |-> id_event, context |-> b]}
            /\ tcall' = TCall("timer_proc", id_event, "POSTED")

MgrTimersNext ==
    \/ \E hWnd \in Hwnds, idNull \in BOOLEAN, dwTimeVal \in {0, 1} :
         WFMSetTimer(hWnd, idNull, dwTimeVal)
    \/ \E wTimerID \in 0..WORD_MAX, overflow_checks \in BOOLEAN, killed \in BOOLEAN :
         WFMKillTimer(wTimerID, overflow_checks, killed)
    \/ \E hwnd \in Windows, id_event \in SuppSlots : WFMTimerProc(hwnd, id_event)

(***************************************************************************)
(* Session table of the manager: input domains and shared shapes           *)
(***************************************************************************)

\* Entries of the session table in the model (manager.rs:21, mgr.rs and
\* lib.rs alike: (0..8192).map(|_| None).collect()).
MaxServices == 2

\* Top value of the request id counter in the model (REQUESTID = ULONG,
\* u32::MAX in the source).
REQUESTID_MAX == 3

\* Indices of the session table, counted from 0 as in the source.
ServiceSlots == 0..(MaxServices - 1)

\* Session handles a caller can pass: 0, every handle of the table, and one
\* beyond its capacity.
HServices == 0..(MaxServices + 1)

\* Return codes of a provider entry point: success and one failure.
ProviderResults == {"WFS_SUCCESS", "WFS_ERR_HARDWARE_ERROR"}

\* Option<T>: None and Some(x).
None == <<>>

Some(x) == <<x>>

\* service.rs:10-15 struct Service (its library and trace level left out);
\* the Service of mgr.rs and lib.rs has no service_id, it is NULL there.
Service(service_id, request_id) ==
    [service_id |-> service_id, request_id |-> request_id]

\* A get_request_id that hands out the counter as it is.
keep_request_id(n) == n

\* u32::overflowing_add(1).0 with the model's top value.
wrapping_add(n) == (n + 1) % (REQUESTID_MAX + 1)

\* A search for an empty entry that falls back to the first entry when no
\* entry is empty.
position_first(services) ==
    LET empty == {i \in DOMAIN services : services[i] = None}
    IN IF empty = {} THEN Some(0)
       ELSE Some(CHOOSE i \in empty : \A j \in empty : i <= j)

\* services.iter().position(|s| s.is_none())
position_none(services) ==
    LET empty == {i \in DOMAIN services : services[i] = None}
    IN IF empty = {} THEN None
       ELSE Some(CHOOSE i \in empty : \A j \in empty : i <= j)

\* A provider entry point as it was invoked: its name, the hService and the
\* request id it was given, and the code it returned.
Invoked(entry, h, req, ret) ==
    Some([entry |-> entry, h |-> h, req |-> req, ret |-> ret])

\* A manager call as its caller observes it: the thread, the handle passed,
\* the return code, what was written through the handle and request id
\* pointers (None: nothing was written), and the provider entry invoked.
MCall(op, thread, h, ret, out_h, out_req, prov) ==
    [op |-> op, thread |-> thread, h |-> h, ret |-> ret,
     out_h |-> out_h, out_req |-> out_req, prov |-> prov]

NoCall == MCall("none", "none", NULL, "WFS_SUCCESS", None, None, None)

\* A thread outside every synchronous wrapper.
NoWrapper == "none"

\* Capacity of the app-handle table in the model ([bool; 8192] in the source).
MaxAppHandles == 2

\* Indices of the app-handle table.
AppSlots == 0..(MaxAppHandles - 1)

\* The mutexes whose guard is alive while foreign code runs.
Mutexes == {"SERVICES", "BLOCKING_HOOK"}

\* No thread holds the guard.
NoThread == "none"

\* window.rs:31-34 struct SyncWindow as its thread sees it: the number of
\* the window (0: none created yet), whether it exists, and the messages in
\* its receiver.
SyncWindow(hwnd, alive, receiver) ==
    [hwnd |-> hwnd, alive |-> alive, receiver |-> receiver]

NoWindow == SyncWindow(0, FALSE, <<>>)

(***************************************************************************)
(* manager.rs and service.rs: the session table behind one mutex           *)
(***************************************************************************)

\* Ways open_service can fail before the provider is reached.
OpenFaults == {"none", "null_pointer", "no_config", "no_library", "no_export"}

\* manager.rs:139-182 open_service, with Service::new and Service::open.
\* The handle pointer `service` is checked for null and never written.
open_service(fault, result) ==
    /\ UNCHANGED <<heapVars, timerVars, libVars, STARTED, BLOCKED_THREADS, wpc>>
    /\ LET service_index == position_none(SERVICES)
           id == wrapping_add(0)
           reject(ret) ==
               /\ mcall' = MCall("open", "none", NULL, ret, None, None, None)
               /\ UNCHANGED SERVICES
       IN IF fault = "null_pointer" THEN reject("WFS_ERR_INVALID_POINTER")
          ELSE IF fault = "no_config" THEN reject("WFS_ERR_INVALID_SERVPROV")
          ELSE IF service_index = None \/ fault \in {"no_library", "no_export"}
          THEN reject("WFS_ERR_INTERNAL_ERROR")
          ELSE /\ mcall' = MCall("open", "none", NULL, result, None, Some(id),
                                 Invoked("WFPOpen", service_index[1], id, result))
               /\ SERVICES' = IF result # "WFS_SUCCESS" THEN SERVICES
                              ELSE [SERVICES EXCEPT ![service_index[1]] =
                                      Some(Service(service_index[1], id))]

\* The operations of manager.rs that look their session up with
\* services.get_mut(h_service as usize) and forward to a Service method that
\* takes a request id.
ManagerOps == {"register", "deregister", "execute", "get_info", "lock", "unlock"}

\* manager.rs:195-247 register .. unlock with service.rs:68-111: export
\* lookup, then the provider entry with self.get_request_id(request_id).
manager_request(op, h_service, export, result) ==
    /\ UNCHANGED <<heapVars, timerVars, libVars, STARTED, BLOCKED_THREADS, wpc>>
    /\ IF h_service \notin ServiceSlots \/ SERVICES[h_service] = None
       THEN /\ mcall' = MCall(op, "none", h_service, "WFS_ERR_INVALID_HSERVICE",
                              None, None, None)
            /\ UNCHANGED SERVICES
       ELSE IF ~export
       THEN /\ mcall' = MCall(op, "none", h_service, "WFS_ERR_INTERNAL_ERROR",
                              None, None, None)
            /\ UNCHANGED SERVICES
       ELSE LET service == SERVICES[h_service][1]
                id == wrapping_add(service.request_id)
            IN /\ SERVICES' = [SERVICES EXCEPT ![h_service] =
                                 Some(Service(service.service_id, id))]
               /\ mcall' = MCall(op, "none", h_service, result, None, Some(id),
                                 Invoked(op, service.service_id, id, result))

\* manager.rs:184-193 close_service: the session is looked up at index
\* h_service, the entry emptied is h_service - 1; with h_service = 0 the
\* index expression panics (overflow check, or bounds check after the wrap)
\* once Service::close has returned.
close_service(h_service, export, result) ==
    /\ UNCHANGED <<heapVars, timerVars, libVars, STARTED, BLOCKED_THREADS, wpc>>
    /\ IF h_service \notin ServiceSlots \/ SERVICES[h_service] = None
       THEN /\ mcall' = MCall("close", "none", h_service,
                              "WFS_ERR_INVALID_HSERVICE", None, None, None)
            /\ UNCHANGED SERVICES
       ELSE LET service == SERVICES[h_service][1]
                id == wrapping_add(service.request_id)
                closed == IF export
                          THEN [SERVICES EXCEPT ![h_service] =
                                  Some(Service(service.service_id, id))]
                          ELSE SERVICES
                ret == IF h_service = 0 THEN "PANIC"
                       ELSE IF export THEN result ELSE "WFS_ERR_INTERNAL_ERROR"
            IN /\ SERVICES' = IF h_service = 0 THEN closed
                              ELSE [closed EXCEPT ![h_service - 1] = None]
               /\ mcall' = IF export
                           THEN MCall("close", "none", h_service, ret, None,
                                      Some(id),
                                      Invoked("close", service.service_id, id, result))
                           ELSE MCall("close", "none", h_service, ret,
                                      None, None, None)

\* manager.rs:249-256 cancel_request: the same lookup; the provider entry is
\* given the caller's request id and no new id is drawn.
cancel_request(h_service, export, result) ==
    /\ UNCHANGED <<heapVars, timerVars, libVars, STARTED, BLOCKED_THREADS, wpc, SERVICES>>
    /\ IF h_service \notin ServiceSlots \/ SERVICES[h_service] = None
       THEN mcall' = MCall("cancel_request", "none", h_service,
                           "WFS_ERR_INVALID_HSERVICE", None, None, None)
       ELSE IF ~export
       THEN mcall' = MCall("cancel_request", "none", h_service,
                           "WFS_ERR_INTERNAL_ERROR", None, None, None)
       ELSE mcall' = MCall("cancel_request", "none", h_service, result, None, None,
                           Invoked("cancel_request",
                                   SERVICES[h_service][1].service_id, NULL,
                                   result))

\* manager.rs:76-83 get_trace_level: h_service as usize - 1 with no check
\* for 0; the subtraction panics in a build with overflow checks and wraps
\* to an index beyond the table in one without.
get_trace_level(h_service, overflow_checks) ==
    /\ UNCHANGED <<heapVars, timerVars, libVars, STARTED, BLOCKED_THREADS, wpc, SERVICES>>
    /\ mcall' = MCall("get_trace_level", "none", h_service,
                      IF h_service = 0 /\ overflow_checks THEN "PANIC"
                      ELSE IF /\ h_service - 1 \in ServiceSlots
                              /\ SERVICES[h_service - 1] # None
                      THEN "WFS_SUCCESS" ELSE "WFS_ERR_INVALID_HSERVICE",
                      None, None, None)

\* manager.rs:127-137 set_trace_level with service.rs:90-94.
set_trace_level(h_service, export, result) ==
    /\ UNCHANGED <<heapVars, timerVars, libVars, STARTED, BLOCKED_THREADS, wpc, SERVICES>>
    /\ IF h_service = 0 \/ h_service - 1 \notin ServiceSlots
          \/ SERVICES[h_service - 1] = None
       THEN mcall' = MCall("set_trace_level", "none", h_service,
                           "WFS_ERR_INVALID_HSERVICE", None, None, None)
       ELSE IF ~export
       THEN mcall' = MCall("set_trace_level", "none", h_service,
                           "WFS_ERR_INTERNAL_ERROR", None, None, None)
       ELSE mcall' = MCall("set_trace_level", "none", h_service, result, None,
                           None,
                           Invoked("set_trace_level",
                                   SERVICES[h_service - 1][1].service_id, NULL,
                                   result))

ManagerNext ==
    \/ \E fault \in OpenFaults, result \in ProviderResults :
         open_service(fault, result)
    \/ \E op \in ManagerOps, h_service \in HServices, export \in BOOLEAN,
          result \in ProviderResults :
         manager_request(op, h_service, export, result)
    \/ \E h_service \in HServices, export \in BOOLEAN, result \in ProviderResults :
         close_service(h_service, export, result)
    \/ \E h_service \in HServices, export \in BOOLEAN, result \in ProviderResults :
         cancel_request(h_service, export, result)
    \/ \E h_service \in HServices, overflow_checks \in BOOLEAN :
         get_trace_level(h_service, overflow_checks)
    \/ \E h_service \in HServices, export \in BOOLEAN, result \in ProviderResults :
         set_trace_level(h_service, export, result)

(***************************************************************************)
(* xfs_mgr/src/lib.rs: the exported entry points, their started gate and   *)
(* the blocked-thread map                                                  *)
(***************************************************************************)

\* Asynchronous forms that resolve their session with get_service_req!;
\* WFSAsyncDeregister, WFSAsyncGetInfo, WFSAsyncLock, WFSAsyncRegister and
\* WFSAsyncUnlock have the body of WFSAsyncExecute with another export.
AsyncOps == {"WFSAsyncClose", "WFSAsyncExecute"}

\* Synchronous wrappers: assert_started!, block_thread!, call_async;
\* WFSDeregister, WFSGetInfo, WFSLock, WFSRegister and WFSUnlock have the
\* body of WFSExecute with another asynchronous form.
SyncOps == {"WFSOpen", "WFSClose", "WFSExecute"}

\* dwThreadID = 0: the calling thread.
CurrentThread == "0"

\* A call of thread t that returns ret having written and invoked nothing.
Returns(op, t, h, ret) == mcall' = MCall(op, t, h, ret, None, None, None)

\* lib.rs:681-720 WFSStartUp; valid: the version range and the pointer pass
\* the checks that precede the started test.
WFSStartUp(t, valid) ==
    /\ UNCHANGED <<heapVars, timerVars, libVars, SERVICES, BLOCKED_THREADS, wpc>>
    /\ wpc[t] = NoWrapper
    /\ IF ~valid
       THEN Returns("WFSStartUp", t, NULL, "WFS_ERR_INVALID_POINTER") /\ UNCHANGED STARTED
       ELSE IF STARTED
       THEN Returns("WFSStartUp", t, NULL, "WFS_ERR_ALREADY_STARTED") /\ UNCHANGED STARTED
       ELSE Returns("WFSStartUp", t, NULL, "WFS_SUCCESS") /\ STARTED' = TRUE

\* lib.rs:186-202 WFSCleanUp: assert_unblocked! alone, then the session,
\* timer and app-handle tables are rebuilt and STARTED cleared; BUFFERS,
\* BLOCKED_THREADS and BLOCKING_HOOK are kept.
WFSCleanUp(t) ==
    /\ UNCHANGED <<heapVars, boxes, platform, posted, pc, tcall, BLOCKED_THREADS, wpc,
                   BUFFERS, BLOCKING_HOOK, locks, windows, requests>>
    /\ wpc[t] = NoWrapper
    /\ IF t \in DOMAIN BLOCKED_THREADS
       THEN /\ Returns("WFSCleanUp", t, NULL, "WFS_ERR_OP_IN_PROGRESS")
            /\ UNCHANGED <<SERVICES, TIMERS, APP_HANDLES, STARTED>>
       ELSE /\ Returns("WFSCleanUp", t, NULL, "WFS_SUCCESS")
            /\ SERVICES' = [i \in ServiceSlots |-> None]
            /\ TIMERS' = [i \in DOMAIN TIMERS |-> NULL]
            /\ APP_HANDLES' = [i \in AppSlots |-> FALSE]
            /\ STARTED' = FALSE

\* lib.rs:483-624 WFSAsyncOpen: the session is stored and the handle and
\* request id written before the WFPOpen export is looked up; the code
\* WFPOpen returns is dropped.
WFSAsyncOpen(t, fault, result) ==
    /\ UNCHANGED <<heapVars, timerVars, libVars, STARTED, BLOCKED_THREADS, wpc>>
    /\ wpc[t] = NoWrapper
    /\ LET service_index == position_none(SERVICES)
           reject(ret) ==
               /\ mcall' = MCall("WFSAsyncOpen", t, NULL, ret, Some(0), Some(0), None)
               /\ UNCHANGED SERVICES
       IN IF ~STARTED
          THEN Returns("WFSAsyncOpen", t, NULL, "WFS_ERR_NOT_STARTED") /\ UNCHANGED SERVICES
          ELSE IF t \in DOMAIN BLOCKED_THREADS
          THEN Returns("WFSAsyncOpen", t, NULL, "WFS_ERR_OP_IN_PROGRESS") /\ UNCHANGED SERVICES
          ELSE IF fault = "no_config" THEN reject("WFS_ERR_INVALID_SERVPROV")
          ELSE IF fault = "no_library" \/ service_index = None
          THEN reject("WFS_ERR_INTERNAL_ERROR")
          ELSE /\ SERVICES' = [SERVICES EXCEPT ![service_index[1]] =
                                 Some(Service(NULL, 1))]
               /\ mcall' =
                    IF fault = "no_export"
                    THEN MCall("WFSAsyncOpen", t, NULL, "WFS_ERR_INTERNAL_ERROR",
                               Some(service_index[1] + 1), Some(1), None)
                    ELSE MCall("WFSAsyncOpen", t, NULL, "WFS_SUCCESS",
                               Some(service_index[1] + 1), Some(1),
                               Invoked("WFPOpen", service_index[1] + 1, 1, result))

\* lib.rs:215-230 WFSAsyncClose and its six siblings, with get_service_req!
\* (lib.rs:111-124): the counter is incremented (a panic at the top value
\* in a build with overflow checks) and written to the caller before the
\* export is looked up. No form empties the entry.
WFSAsync(t, op, hService, overflow_checks, export, result) ==
    /\ UNCHANGED <<heapVars, timerVars, libVars, STARTED, BLOCKED_THREADS, wpc>>
    /\ wpc[t] = NoWrapper
    /\ IF ~STARTED
       THEN Returns(op, t, hService, "WFS_ERR_NOT_STARTED") /\ UNCHANGED SERVICES
       ELSE IF t \in DOMAIN BLOCKED_THREADS
       THEN Returns(op, t, hService, "WFS_ERR_OP_IN_PROGRESS") /\ UNCHANGED SERVICES
       ELSE IF \/ hService = 0
               \/ hService - 1 \notin ServiceSlots
               \/ SERVICES[hService - 1] = None
       THEN Returns(op, t, hService, "WFS_ERR_INVALID_HSERVICE") /\ UNCHANGED SERVICES
       ELSE LET service == SERVICES[hService - 1][1]
                id == wrapping_add(service.request_id)
            IN IF id = 0 /\ overflow_checks
               THEN Returns(op, t, hService, "PANIC") /\ UNCHANGED SERVICES
               ELSE /\ SERVICES' = [SERVICES EXCEPT ![hService - 1] =
                                      Some(Service(NULL, id))]
                    /\ mcall' =
                         IF export
                         THEN MCall(op, t, hService, result, None, Some(id),
                                    Invoked(op, hService, id, result))
                         ELSE MCall(op, t, hService, "WFS_ERR_INTERNAL_ERROR",
                                    None, Some(id), None)

\* lib.rs:140-161 WFSCancelAsyncRequest: the first lookup computes
\* hService as usize - 1 before hService is compared with 0.
WFSCancelAsyncRequest(t, hService, overflow_checks, export, result) ==
    /\ UNCHANGED <<heapVars, timerVars, libVars, SERVICES, STARTED, BLOCKED_THREADS, wpc>>
    /\ wpc[t] = NoWrapper
    /\ IF ~STARTED
       THEN Returns("WFSCancelAsyncRequest", t, hService, "WFS_ERR_NOT_STARTED")
       ELSE IF t \in DOMAIN BLOCKED_THREADS
       THEN Returns("WFSCancelAsyncRequest", t, hService, "WFS_ERR_OP_IN_PROGRESS")
       ELSE IF hService = 0 /\ overflow_checks
       THEN Returns("WFSCancelAsyncRequest", t, hService, "PANIC")
       ELSE IF hService - 1 \notin ServiceSlots \/ SERVICES[hService - 1] = None
       THEN Returns("WFSCancelAsyncRequest", t, hService, "WFS_ERR_INVALID_HSERVICE")
       ELSE IF ~export
       THEN Returns("WFSCancelAsyncRequest", t, hService, "WFS_ERR_INTERNAL_ERROR")
       ELSE mcall' = MCall("WFSCancelAsyncRequest", t, hService, result, None, None,
                           Invoked("WFSCancelAsyncRequest", hService, NULL, result))

\* lib.rs:841-855 WFMGetTraceLevel: hService as usize - 1 with no check for 0.
WFMGetTraceLevel(t, hService, overflow_checks) ==
    /\ UNCHANGED <<heapVars, timerVars, libVars, SERVICES, STARTED, BLOCKED_THREADS, wpc>>
    /\ wpc[t] = NoWrapper
    /\ Returns("WFMGetTraceLevel", t, hService,
               IF ~STARTED THEN "WFS_ERR_NOT_STARTED"
               ELSE IF hService = 0 /\ overflow_checks THEN "PANIC"
               ELSE IF hService - 1 \in ServiceSlots /\ SERVICES[hService - 1] # None
               THEN "WFS_SUCCESS" ELSE "WFS_ERR_INVALID_HSERVICE")

\* lib.rs:935-952 WFMSetTraceLevel.
WFMSetTraceLevel(t, hService, export, result) ==
    /\ UNCHANGED <<heapVars, timerVars, libVars, SERVICES, STARTED, BLOCKED_THREADS, wpc>>
    /\ wpc[t] = NoWrapper
    /\ IF ~STARTED
       THEN Returns("WFMSetTraceLevel", t, hService, "WFS_ERR_NOT_STARTED")
       ELSE IF \/ hService = 0
               \/ hService - 1 \notin ServiceSlots
               \/ SERVICES[hService - 1] = None
       THEN Returns("WFMSetTraceLevel", t, hService, "WFS_ERR_INVALID_HSERVICE")
       ELSE IF ~export
       THEN Returns("WFMSetTraceLevel", t, hService, "WFS_ERR_INTERNAL_ERROR")
       ELSE mcall' = MCall("WFMSetTraceLevel", t, hService, result, None, None,
                           Invoked("WFMSetTraceLevel", hService, NULL, result))

\* lib.rs:165-181 WFSCancelBlockingCall: the flag of the named thread is set
\* when the thread is in the map; the return code is WFS_SUCCESS either way.
WFSCancelBlockingCall(t, dwThreadID) ==
    /\ UNCHANGED <<heapVars, timerVars, libVars, SERVICES, STARTED, wpc>>
    /\ wpc[t] = NoWrapper
    /\ LET thread_id == IF dwThreadID = CurrentThread THEN t ELSE dwThreadID
       IN IF ~STARTED
          THEN /\ Returns("WFSCancelBlockingCall", dwThreadID, NULL, "WFS_ERR_NOT_STARTED")
               /\ UNCHANGED BLOCKED_THREADS
          ELSE /\ Returns("WFSCancelBlockingCall", dwThreadID, NULL, "WFS_SUCCESS")
               /\ BLOCKED_THREADS' =
                    IF thread_id \in DOMAIN BLOCKED_THREADS
                    THEN MapInsert(BLOCKED_THREADS, thread_id, TRUE)
                    ELSE BLOCKED_THREADS

\* A wrapper whose block_thread! inserts the thread without looking for it.
WFSSyncUnchecked(t, op, hService) ==
    /\ UNCHANGED <<heapVars, timerVars, libVars, SERVICES, STARTED>>
    /\ wpc[t] = NoWrapper
    /\ IF ~STARTED
       THEN Returns(op, t, hService, "WFS_ERR_NOT_STARTED") /\ UNCHANGED <<BLOCKED_THREADS, wpc>>
       ELSE /\ BLOCKED_THREADS' = MapInsert(BLOCKED_THREADS, t, FALSE)
            /\ wpc' = [wpc EXCEPT ![t] = op]
            /\ Returns(op, t, hService, "PENDING")

\* lib.rs:206-211 WFSClose and the other synchronous wrappers, up to their
\* call of call_async: assert_started!, then block_thread! (lib.rs:96-108).
\* hService is handed on to the asynchronous form (WFSOpen has none).
WFSSync(t, op, hService) ==
    /\ UNCHANGED <<heapVars, timerVars, libVars, SERVICES, STARTED>>
    /\ wpc[t] = NoWrapper
    /\ IF ~STARTED
       THEN Returns(op, t, hService, "WFS_ERR_NOT_STARTED") /\ UNCHANGED <<BLOCKED_THREADS, wpc>>
       ELSE IF t \in DOMAIN BLOCKED_THREADS
       THEN Returns(op, t, hService, "WFS_ERR_OP_IN_PROGRESS") /\ UNCHANGED <<BLOCKED_THREADS, wpc>>
       ELSE /\ BLOCKED_THREADS' = MapInsert(BLOCKED_THREADS, t, FALSE)
            /\ wpc' = [wpc EXCEPT ![t] = op]
            /\ Returns(op, t, hService, "PENDING")

\* lib.rs:1053-1061 call_async inside a wrapper: async_fn is the
\* asynchronous form, run on the wrapper's thread, whose assert_started!
\* and assert_unblocked! come first; the thread is in BLOCKED_THREADS since
\* block_thread!, so the form returns before it reaches the session table,
\* and call_async returns that code without removing the thread.
call_async(t) ==
    /\ UNCHANGED <<heapVars, timerVars, libVars, SERVICES, STARTED, BLOCKED_THREADS>>
    /\ wpc[t] # NoWrapper
    /\ t \in DOMAIN BLOCKED_THREADS
    /\ wpc' = [wpc EXCEPT ![t] = NoWrapper]
    /\ Returns(wpc[t], t, NULL,
               IF ~STARTED THEN "WFS_ERR_NOT_STARTED" ELSE "WFS_ERR_OP_IN_PROGRESS")

LibNext ==
    \/ \E t \in Threads, valid \in BOOLEAN : WFSStartUp(t, valid)
    \/ \E t \in Threads : WFSCleanUp(t)
    \/ \E t \in Threads, fault \in OpenFaults \ {"null_pointer"},
          result \in ProviderResults :
         WFSAsyncOpen(t, fault, result)
    \/ \E t \in Threads, op \in AsyncOps, hService \in HServices,
          overflow_checks \in BOOLEAN, export \in BOOLEAN,
          result \in ProviderResults :
         WFSAsync(t, op, hService, overflow_checks, export, result)
    \/ \E t \in Threads, hService \in HServices, overflow_checks \in BOOLEAN,
          export \in BOOLEAN, result \in ProviderResults :
         WFSCancelAsyncRequest(t, hService, overflow_checks, export, result)
    \/ \E t \in Threads, hService \in HServices, overflow_checks \in BOOLEAN :
         WFMGetTraceLevel(t, hService, overflow_checks)
    \/ \E t \in Threads, hService \in HServices, export \in BOOLEAN,
          result \in ProviderResults :
         WFMSetTraceLevel(t, hService, export, result)
    \/ \E t \in Threads, dwThreadID \in {CurrentThread} \cup Threads :
         WFSCancelBlockingCall(t, dwThreadID)
    \/ \E t \in Threads, op \in SyncOps, hService \in HServices :
         WFSSync(t, op, hService)
    \/ \E t \in Threads : call_async(t)

(***************************************************************************)
(* Specifications                                                          *)
(***************************************************************************)

vars == <<allocations, total_bytes, hcall, handed, freed, former,
          TIMERS, boxes, platform, posted, pc, tcall,
          SERVICES, STARTED, BLOCKED_THREADS, wpc, mcall,
          APP_HANDLES, BUFFERS, BLOCKING_HOOK, locks, windows, requests>>

\* The state after construction: Heap::new and the lazy_static TIMERS.
Init ==
    /\ allocations = <<>>
    /\ total_bytes = 0
    /\ hcall = HCall("none", 0, NULL, FALSE, NULL, "WFS_SUCCESS", NULL)
    /\ handed = {}
    /\ freed = {}
    /\ former = {}
    /\ TIMERS = [i \in SuppSlots |-> NULL]
    /\ boxes = <<>>
    /\ platform = {}
    /\ posted = {}
    /\ pc = [t \in Threads |-> Idle]
    /\ tcall = TCall("none", NULL, "WFS_SUCCESS")
    /\ SERVICES = [i \in ServiceSlots |-> None]
    /\ STARTED = FALSE
    /\ BLOCKED_THREADS = <<>>
    /\ wpc = [t \in Threads |-> NoWrapper]
    /\ mcall = NoCall
    /\ APP_HANDLES = [i \in AppSlots |-> FALSE]
    /\ BUFFERS = <<>>
    /\ BLOCKING_HOOK = None
    /\ locks = [m \in Mutexes |-> NoThread]
    /\ windows = [t \in Threads |-> NoWindow]
    /\ requests = {}

\* The buffer heap alone; the timer registry stays as constructed.
SpecHeap == Init /\ [][HeapNext]_vars

\* The timer registry of supp.rs alone; the heap stays as constructed.
SpecTimers == Init /\ [][TimersNext]_vars

\* The timer registry of xfs_mgr/lib.rs alone (its table is constructed
\* like that of supp.rs, one entry for each of 0..65535 exclusive).
SpecMgrTimers == Init /\ [][MgrTimersNext]_vars

\* The session table of manager.rs and service.rs alone.
SpecManager == Init /\ [][ManagerNext]_vars

\* The entry points of xfs_mgr/lib.rs over the session table, the started
\* flag and the blocked-thread map.
SpecLib == Init /\ [][LibNext]_vars

\* The state of timer.rs after construction, the heap as constructed.
InitTimerRs ==
    /\ allocations = <<>>
    /\ total_bytes = 0
    /\ hcall = HCall("none", 0, NULL, FALSE, NULL, "WFS_SUCCESS", NULL)
    /\ handed = {}
    /\ freed = {}
    /\ former = {}
    /\ TIMERS = [i \in TimerRsSlots |-> NULL]
    /\ boxes = <<>>
    /\ platform = {}
    /\ posted = {}
    /\ pc = [t \in {MsgLoop} |-> Idle]
    /\ tcall = TCall("none", NULL, "WFS_SUCCESS")
    /\ SERVICES = [i \in ServiceSlots |-> None]
    /\ STARTED = FALSE
    /\ BLOCKED_THREADS = <<>>
    /\ wpc = [t \in Threads |-> NoWrapper]
    /\ mcall = NoCall
    /\ APP_HANDLES = [i \in AppSlots |-> FALSE]
    /\ BUFFERS = <<>>
    /\ BLOCKING_HOOK = None
    /\ locks = [m \in Mutexes |-> NoThread]
    /\ windows = [t \in Threads |-> NoWindow]
    /\ requests = {}

\* The timer registry of timer.rs alone.
SpecTimerRs == InitTimerRs /\ [][TimerRsNext]_vars

(***************************************************************************)
(* Buffer heap: properties                                                 *)
(***************************************************************************)

\* Pointers of all children of live roots.
LiveChildren == UNION {ChildPtrs(allocations[p]) : p \in DOMAIN allocations}

\* The step is a call of `op` that passed the pointer-argument checks.
HStep(op) ==
    /\ hcall'.op = op
    /\ ~hcall'.dataNull
    /\ op = "allocate_more" => (hcall'.original # NULL /\ hcall'.cur # hcall'.original)

HeapUnchanged == UNCHANGED <<allocations, total_bytes>>

\* C1: whenever every root pointer handed out by allocate has been freed,
\* the outstanding-bytes counter is 0 and the table of roots is empty.
C1_AllFreedCounterZero ==
    handed = {} => (total_bytes = 0 /\ DOMAIN allocations = {})

\* C1 witness: a root that owned a non-empty child has been freed and no
\* root is outstanding.
C1_Witness ==
    /\ handed = {}
    /\ hcall.op = "free" /\ hcall.ret = "WFS_SUCCESS"
    /\ former \cap HeapAddrs # {}

\* C2 (as claimed): free(p) of a child pointer p whose parent is live fails
\* with WFS_ERR_INVALID_BUFFER and changes neither the table nor the counter.
C2_FreeChildFails ==
    [][(HStep("free") /\ hcall'.cur \in LiveChildren)
         => (hcall'.ret = "WFS_ERR_INVALID_BUFFER" /\ HeapUnchanged)]_vars

\* C3: free(p) of an outstanding root pointer succeeds and removes it;
\* free(p) of a pointer that was freed and not handed out since fails with
\* WFS_ERR_INVALID_BUFFER and changes neither the counter nor any allocation.
C3_SecondFreeFails ==
    [][HStep("free") =>
         /\ hcall'.cur \in handed =>
               (hcall'.ret = "WFS_SUCCESS" /\ hcall'.cur \notin DOMAIN allocations')
         /\ hcall'.cur \in freed =>
               (hcall'.ret = "WFS_ERR_INVALID_BUFFER" /\ HeapUnchanged)]_vars

\* C3 witness: a second free of a freed root has been rejected while another
\* root is outstanding.
C3_Witness ==
    /\ hcall.op = "free" /\ hcall.ret = "WFS_ERR_INVALID_BUFFER"
    /\ hcall.cur \in freed
    /\ handed # {}

C5_CounterWithinQuota == total_bytes \in 0..MAX_HEAP_SIZE

\* C5 witness: the quota is filled exactly, by a root and its child.
C5_Witness ==
    /\ total_bytes = MAX_HEAP_SIZE
    /\ hcall.op = "allocate_more" /\ hcall.ret = "WFS_SUCCESS"

\* C6 (as claimed): allocate_more whose parent is a child pointer, a freed
\* pointer or a pointer the heap does not hold as a root fails with
\* WFS_ERR_INVALID_BUFFER and leaves the heap unchanged.
C6_ParentMustBeRoot ==
    [][(HStep("allocate_more")
          /\ (\/ hcall'.original \in LiveChildren
              \/ hcall'.original \in freed
              \/ hcall'.original \notin DOMAIN allocations))
         => (hcall'.ret = "WFS_ERR_INVALID_BUFFER" /\ HeapUnchanged)]_vars

\* C7 (as claimed): free of a live root lowers the counter by the size of the
\* root plus the sizes of its children, and afterwards free(child) and
\* allocate_more(child, n) fail with WFS_ERR_INVALID_BUFFER for every former
\* child (until that address is handed out again).
C7_FreeRootReleasesSubtree ==
    [][/\ (HStep("free") /\ hcall'.cur \in DOMAIN allocations) =>
            /\ hcall'.ret = "WFS_SUCCESS"
            /\ total_bytes' = total_bytes - allocations[hcall'.cur].size
                                 - SumSizes(allocations[hcall'.cur].child)
       /\ (HStep("free") /\ hcall'.cur \in former) =>
            hcall'.ret = "WFS_ERR_INVALID_BUFFER"
       /\ (HStep("allocate_more") /\ hcall'.original \in former) =>
            hcall'.ret = "WFS_ERR_INVALID_BUFFER"]_vars

(***************************************************************************)
(* Timer registry: properties                                              *)
(***************************************************************************)

\* The step is one of the timer operation `op` (every step of a timer
\* operation records itself in tcall).
TStep(op) == tcall'.op = op

\* Timer b is live: its set_timer returned success, and neither kill_timer
\* nor a firing has taken it.
Live(b) == boxes[b].set /\ boxes[b].fire + boxes[b].kill = 0

\* C8 (as claimed): a slot claimed by set_timer stays claimed by that timer
\* until kill_timer or a firing frees it, so it is handed to no other
\* set_timer, and two timers that are live at the same time never have the
\* same id.
C8_LiveTimersDistinctIds ==
    /\ \A b \in DOMAIN boxes : Live(b) => TIMERS[boxes[b].id] = b
    /\ \A b1, b2 \in DOMAIN boxes :
         Live(b1) /\ Live(b2) /\ b1 # b2 => boxes[b1].id # boxes[b2].id

\* C9 (as claimed): kill_timer(id), for every id 0..WORD_MAX whose slot holds
\* no timer, returns WFS_ERR_INVALID_TIMER, changes no slot and posts
\* nothing; on a slot that holds a timer it returns WFS_SUCCESS and empties
\* the slot, so that it succeeds once.
C9_KillTimerInvalidOrOnce ==
    [][TStep("kill_timer") /\ tcall'.ret # "PENDING" =>
         LET id == tcall'.id IN
         IF id \notin DOMAIN TIMERS \/ TIMERS[id] = NULL
         THEN /\ tcall'.ret = "WFS_ERR_INVALID_TIMER"
              /\ TIMERS' = TIMERS
              /\ posted' = posted
         ELSE /\ tcall'.ret = "WFS_SUCCESS"
              /\ TIMERS'[id] = NULL]_vars

\* C10: a timer is taken out of its slot at most once, by a firing or by
\* kill_timer, never by both: if a firing took it, exactly one completion
\* with its context was posted and no kill_timer got it; if kill_timer took
\* it, no completion with its context was posted.
C10_FiringOrKillTakesOnce ==
    \A b \in DOMAIN boxes :
      /\ boxes[b].fire + boxes[b].kill <= 1
      /\ Cardinality({m \in posted : m.context = b}) = boxes[b].fire

\* C10 witness: kill_timer has taken a timer and is still running when a
\* tick for the same id finds the slot empty and posts nothing.
C10_Witness ==
    \E t \in Threads :
      /\ pc[t].st = "kill"
      /\ tcall = TCall("timer_proc", pc[t].id, "NOTHING_POSTED")
      /\ boxes[pc[t].box].kill = 1

\* C11 (as claimed): every successful set_timer writes a nonzero id, at
\* most one completion with its context is ever posted, however often the
\* platform timer ticks, and a kill_timer(id) of a timer that has fired (no
\* later set_timer having claimed the id) returns WFS_ERR_INVALID_TIMER.
C11_TimersAreOneShot ==
    /\ [](\A b \in DOMAIN boxes :
            boxes[b].set => boxes[b].id # 0 /\ boxes[b].fire <= 1)
    /\ [][(/\ TStep("kill_timer") /\ tcall'.ret # "PENDING"
           /\ \E b \in DOMAIN boxes :
                /\ boxes[b].set /\ boxes[b].id = tcall'.id /\ boxes[b].fire >= 1
                /\ \A c \in DOMAIN boxes : c > b => boxes[c].id # tcall'.id)
          => tcall'.ret = "WFS_ERR_INVALID_TIMER"]_vars

(***************************************************************************)
(* Properties of the session table                                         *)
(***************************************************************************)

\* The manager call `op` took this step.
MStep(op) == mcall'.op = op

\* C12: an open that succeeds on a table whose lowest empty entry has index
\* i hands the caller session handle i + 1 and request id 1.
C12_OpenYieldsHandleAndRequestId ==
    [][(MStep("open") /\ mcall'.ret = "WFS_SUCCESS" /\ position_none(SERVICES) # None)
       => /\ mcall'.out_h = Some(position_none(SERVICES)[1] + 1)
          /\ mcall'.out_req = Some(1)]_vars

\* C13: close(h) on a live session h (the one in entry h - 1) calls the
\* provider's close and returns its code unless the export is missing, and
\* whatever the return code leaves entry h - 1 empty and every other entry as it was, so that a
\* second close(h) finds no session.
C13_CloseReleasesSlot ==
    [][(/\ MStep("close")
        /\ mcall'.h - 1 \in ServiceSlots
        /\ SERVICES[mcall'.h - 1] # None)
       => /\ SERVICES'[mcall'.h - 1] = None
          /\ \A i \in ServiceSlots \ {mcall'.h - 1} : SERVICES'[i] = SERVICES[i]
          /\ \/ mcall'.prov # None /\ mcall'.ret = mcall'.prov[1].ret
             \/ mcall'.ret = "WFS_ERR_INTERNAL_ERROR"]_vars

\* C14: when the provider's Open entry reports failure, open returns that
\* code to the caller and the session table is the table before the call.
C14_FailedOpenLeavesNoSession ==
    [][(/\ MStep("WFSAsyncOpen")
        /\ mcall'.prov # None
        /\ mcall'.prov[1].ret # "WFS_SUCCESS")
       => /\ mcall'.ret = mcall'.prov[1].ret
          /\ SERVICES' = SERVICES]_vars

\* A dispatched operation of manager.rs on the session of entry mcall'.h
\* took this step and handed a request id to its caller.
Dispatched ==
    /\ mcall'.op \in ManagerOps \cup {"close"}
    /\ mcall'.out_req # None

C16_InvalidHandleRejected ==
    [][(/\ mcall'.op \in AsyncOps \cup {"WFSCancelAsyncRequest",
                                        "WFMGetTraceLevel", "WFMSetTraceLevel"}
        /\ STARTED
        /\ mcall'.thread \notin DOMAIN BLOCKED_THREADS
        /\ \/ mcall'.h = 0
           \/ mcall'.h - 1 \notin ServiceSlots
           \/ SERVICES[mcall'.h - 1] = None)
       => /\ mcall'.ret = "WFS_ERR_INVALID_HSERVICE"
          /\ mcall'.prov = None
          /\ SERVICES' = SERVICES]_vars

(***************************************************************************)
(* Properties of the blocked-thread map                                    *)
(***************************************************************************)

\* Thread mcall'.thread, which is in BLOCKED_THREADS and not between the
\* two steps of a wrapper, called a synchronous wrapper or an entry point
\* that begins with assert_unblocked! in this step.
BlockedThreadCalls ==
    /\ mcall'.op \in SyncOps \cup AsyncOps \cup
                     {"WFSAsyncOpen", "WFSCancelAsyncRequest", "WFSCleanUp"}
    /\ mcall'.thread \in DOMAIN BLOCKED_THREADS
    /\ wpc[mcall'.thread] = NoWrapper

C18_ReturnUnblocksThread ==
    /\ [](\A t \in DOMAIN BLOCKED_THREADS : wpc[t] # NoWrapper)
    /\ [][(/\ mcall'.op \in SyncOps
           /\ mcall'.ret # "PENDING"
           /\ wpc[mcall'.thread] # NoWrapper)
          => mcall'.thread \notin DOMAIN BLOCKED_THREADS']_vars

\* C19: a synchronous operation on a valid session, issued on a started
\* manager by a thread with no blocking call outstanding, has its
\* asynchronous form reach the provider, so that the wrapper can return the
\* delivered result: the wrapper that has just blocked its thread does not
\* return WFS_ERR_OP_IN_PROGRESS.
C19_SyncCallReachesProvider ==
    [][(/\ mcall.op \in SyncOps \ {"WFSOpen"}
        /\ mcall.ret = "PENDING"
        /\ mcall.h - 1 \in ServiceSlots
        /\ SERVICES[mcall.h - 1] # None
        /\ STARTED
        /\ mcall'.op = mcall.op
        /\ mcall'.thread = mcall.thread
        /\ mcall'.ret # "PENDING")
       => mcall'.ret # "WFS_ERR_OP_IN_PROGRESS"]_vars

\* C20: WFSCancelBlockingCall(t), on a started manager, sets the cancel flag
\* of thread t (the caller for t = 0) and of no other thread when t is in
\* BLOCKED_THREADS, and otherwise reports WFS_ERR_NO_BLOCKING_CALL and
\* leaves the map as it was.
C20_CancelBlockingCall ==
    [][(MStep("WFSCancelBlockingCall") /\ STARTED)
       => \E caller \in Threads :
            LET thread_id == IF mcall'.thread = CurrentThread THEN caller
                             ELSE mcall'.thread
            IN IF thread_id \in DOMAIN BLOCKED_THREADS
               THEN /\ mcall'.ret = "WFS_SUCCESS"
                    /\ BLOCKED_THREADS' = MapInsert(BLOCKED_THREADS, thread_id, TRUE)
               ELSE /\ mcall'.ret = "WFS_ERR_NO_BLOCKING_CALL"
                    /\ UNCHANGED BLOCKED_THREADS]_vars

\* C30 as stated, on manager.rs and service.rs: every operation on a valid
\* session that reaches its provider entry, cancel_request and
\* set_trace_level included, advances the session's request id counter by
\* one step, and the provider and the caller are given that new id.
C30_EveryOperationDrawsRequestId ==
    [][(/\ mcall'.op \in ManagerOps \cup {"close", "cancel_request",
                                          "set_trace_level"}
        /\ mcall'.prov # None)
       => LET slot == IF mcall'.op = "set_trace_level" THEN mcall'.h - 1
                      ELSE mcall'.h
              id == wrapping_add(SERVICES[slot][1].request_id)
          IN /\ SERVICES'[slot] # None
             /\ SERVICES'[slot][1].request_id = id
             /\ mcall'.prov[1].req = id
             /\ mcall'.out_req = Some(id)]_vars

\* C23 as stated, on lib.rs: an entry point other than WFSStartUp that is
\* invoked while the manager is not started returns WFS_ERR_NOT_STARTED and
\* leaves the session table, the timer table, the heap, the started flag
\* and the blocked-thread map as they were.
C23_StartedGateFirst ==
    [][(~STARTED /\ mcall'.op \notin {"WFSStartUp", "none"})
       => /\ mcall'.ret = "WFS_ERR_NOT_STARTED"
          /\ UNCHANGED <<SERVICES, TIMERS, STARTED, BLOCKED_THREADS,
                         allocations, total_bytes>>]_vars

(***************************************************************************)
(* xfs_mgr/src/lib.rs: the app-handle table and the buffer map             *)
(***************************************************************************)

\* Address of the app-handle table in the process, above 1 so that a
\* non-null pointer below the table exists.
APP_BASE == 2

\* App handles a caller can pass: null, a pointer below the table, the
\* address of every slot, and the first address past the table.
HApps == 0..(APP_BASE + MaxAppHandles)

\* A search that takes the last unclaimed slot.
position_last(handles) ==
    LET free == {i \in DOMAIN handles : ~handles[i]}
    IN IF free = {} THEN None
       ELSE Some(CHOOSE i \in free : \A j \in free : j <= i)

\* handles.iter().position(|h| !h)
position_free(handles) ==
    LET free == {i \in DOMAIN handles : ~handles[i]}
    IN IF free = {} THEN None
       ELSE Some(CHOOSE i \in free : \A j \in free : i <= j)

\* lib.rs:247-270 WFSCreateAppHandle, under the APP_HANDLES mutex from the
\* search to the return.
WFSCreateAppHandle(t) ==
    /\ UNCHANGED <<heapVars, timerVars, SERVICES, STARTED, BLOCKED_THREADS, wpc,
                   BUFFERS, BLOCKING_HOOK, locks, windows, requests>>
    /\ wpc[t] = NoWrapper
    /\ LET free == position_free(APP_HANDLES)
       IN IF ~STARTED
          THEN /\ Returns("WFSCreateAppHandle", t, NULL, "WFS_ERR_NOT_STARTED")
               /\ UNCHANGED APP_HANDLES
          ELSE IF t \in DOMAIN BLOCKED_THREADS
          THEN /\ Returns("WFSCreateAppHandle", t, NULL, "WFS_ERR_OP_IN_PROGRESS")
               /\ UNCHANGED APP_HANDLES
          ELSE IF free = None
          THEN /\ Returns("WFSCreateAppHandle", t, NULL, "WFS_ERR_INTERNAL_ERROR")
               /\ UNCHANGED APP_HANDLES
          ELSE /\ APP_HANDLES' = [APP_HANDLES EXCEPT ![free[1]] = TRUE]
               /\ mcall' = MCall("WFSCreateAppHandle", t, NULL, "WFS_SUCCESS",
                                 Some(APP_BASE + free[1]), None, None)

\* lib.rs:310-329 WFSDestroyAppHandle: hApp as usize - ptr panics for a
\* pointer below the table in a build with overflow checks and wraps to an
\* index beyond the table in one without; get_mut(index) does not look at
\* the slot's value.
WFSDestroyAppHandle(t, hApp, overflow_checks) ==
    /\ UNCHANGED <<heapVars, timerVars, SERVICES, STARTED, BLOCKED_THREADS, wpc,
                   BUFFERS, BLOCKING_HOOK, locks, windows, requests>>
    /\ wpc[t] = NoWrapper
    /\ LET index == hApp - APP_BASE
       IN IF ~STARTED
          THEN /\ Returns("WFSDestroyAppHandle", t, hApp, "WFS_ERR_NOT_STARTED")
               /\ UNCHANGED APP_HANDLES
          ELSE IF t \in DOMAIN BLOCKED_THREADS
          THEN /\ Returns("WFSDestroyAppHandle", t, hApp, "WFS_ERR_OP_IN_PROGRESS")
               /\ UNCHANGED APP_HANDLES
          ELSE IF hApp = NULL
          THEN /\ Returns("WFSDestroyAppHandle", t, hApp, "WFS_ERR_INVALID_APP_HANDLE")
               /\ UNCHANGED APP_HANDLES
          ELSE IF index < 0 /\ overflow_checks
          THEN /\ Returns("WFSDestroyAppHandle", t, hApp, "PANIC")
               /\ UNCHANGED APP_HANDLES
          ELSE IF index \notin AppSlots
          THEN /\ Returns("WFSDestroyAppHandle", t, hApp, "WFS_ERR_INVALID_APP_HANDLE")
               /\ UNCHANGED APP_HANDLES
          ELSE /\ APP_HANDLES' = [APP_HANDLES EXCEPT ![index] = FALSE]
               /\ Returns("WFSDestroyAppHandle", t, hApp, "WFS_SUCCESS")

\* The pointers of BUFFERS: its keys and the pointers in their lists.
BufferPtrs ==
    DOMAIN BUFFERS
      \cup UNION {{BUFFERS[p][i] : i \in DOMAIN BUFFERS[p]} : p \in DOMAIN BUFFERS}

\* What HeapAlloc can return: NULL, or an address of no live block.
HeapAllocs == {NULL} \cup (HeapAddrs \ BufferPtrs)

\* lib.rs:761-781 WFMAllocateBuffer: no started gate; the test after
\* HeapAlloc is of lppvData, the pointer tested at entry, so a NULL result
\* is inserted like any other.
WFMAllocateBuffer(t, dataNull, alloc) ==
    /\ UNCHANGED <<heapVars, timerVars, SERVICES, STARTED, BLOCKED_THREADS, wpc,
                   APP_HANDLES, BLOCKING_HOOK, locks, windows, requests>>
    /\ wpc[t] = NoWrapper
    /\ IF dataNull
       THEN /\ Returns("WFMAllocateBuffer", t, NULL, "WFS_ERR_INVALID_POINTER")
            /\ UNCHANGED BUFFERS
       ELSE /\ BUFFERS' = MapInsert(BUFFERS, alloc, <<>>)
            /\ mcall' = MCall("WFMAllocateBuffer", t, NULL, "WFS_SUCCESS",
                              Some(alloc), None, None)

\* lib.rs:785-809 WFMAllocateMore.
WFMAllocateMore(t, lpvOriginal, dataNull, alloc) ==
    /\ UNCHANGED <<heapVars, timerVars, SERVICES, STARTED, BLOCKED_THREADS, wpc,
                   APP_HANDLES, BLOCKING_HOOK, locks, windows, requests>>
    /\ wpc[t] = NoWrapper
    /\ IF dataNull
       THEN /\ Returns("WFMAllocateMore", t, lpvOriginal, "WFS_ERR_INVALID_POINTER")
            /\ UNCHANGED BUFFERS
       ELSE IF lpvOriginal \notin DOMAIN BUFFERS
       THEN /\ Returns("WFMAllocateMore", t, lpvOriginal, "WFS_ERR_INVALID_BUFFER")
            /\ UNCHANGED BUFFERS
       ELSE /\ BUFFERS' = [BUFFERS EXCEPT ![lpvOriginal] = Append(@, alloc)]
            /\ mcall' = MCall("WFMAllocateMore", t, lpvOriginal, "WFS_SUCCESS",
                              Some(alloc), None, None)

\* lib.rs:813-836 WFMFreeBuffer: the list of the key is freed with it.
WFMFreeBuffer(t, lpvData) ==
    /\ UNCHANGED <<heapVars, timerVars, SERVICES, STARTED, BLOCKED_THREADS, wpc,
                   APP_HANDLES, BLOCKING_HOOK, locks, windows, requests>>
    /\ wpc[t] = NoWrapper
    /\ IF lpvData = NULL
       THEN /\ Returns("WFMFreeBuffer", t, lpvData, "WFS_ERR_INVALID_POINTER")
            /\ UNCHANGED BUFFERS
       ELSE IF lpvData \notin DOMAIN BUFFERS
       THEN /\ Returns("WFMFreeBuffer", t, lpvData, "WFS_ERR_INVALID_BUFFER")
            /\ UNCHANGED BUFFERS
       ELSE /\ BUFFERS' = MapRemove(BUFFERS, lpvData)
            /\ Returns("WFMFreeBuffer", t, lpvData, "WFS_SUCCESS")

\* Longest list of one key of BUFFERS in the model.
MaxMore == 1

HandlesNext ==
    \/ \E t \in Threads, valid \in BOOLEAN : WFSStartUp(t, valid)
    \/ \E t \in Threads : WFSCleanUp(t)
    \/ \E t \in Threads, fault \in OpenFaults \ {"null_pointer"},
          result \in ProviderResults :
         WFSAsyncOpen(t, fault, result)
    \/ \E t \in Threads : WFSCreateAppHandle(t)
    \/ \E t \in Threads, hApp \in HApps, overflow_checks \in BOOLEAN :
         WFSDestroyAppHandle(t, hApp, overflow_checks)
    \/ \E t \in Threads, dataNull \in BOOLEAN, alloc \in HeapAllocs :
         WFMAllocateBuffer(t, dataNull, alloc)
    \/ \E t \in Threads, lpvOriginal \in Pointers, dataNull \in BOOLEAN,
          alloc \in HeapAllocs :
         /\ lpvOriginal \in DOMAIN BUFFERS => Len(BUFFERS[lpvOriginal]) < MaxMore
         /\ WFMAllocateMore(t, lpvOriginal, dataNull, alloc)
    \/ \E t \in Threads, lpvData \in Pointers : WFMFreeBuffer(t, lpvData)

\* The app-handle table, the buffer map, the session table and the started
\* flag of xfs_mgr/lib.rs.
SpecHandles == Init /\ [][HandlesNext]_vars

AppHandlesNext ==
    \/ \E t \in Threads, valid \in BOOLEAN : WFSStartUp(t, valid)
    \/ \E t \in Threads : WFSCleanUp(t)
    \/ \E t \in Threads : WFSCreateAppHandle(t)
    \/ \E t \in Threads, hApp \in HApps, overflow_checks \in BOOLEAN :
         WFSDestroyAppHandle(t, hApp, overflow_checks)
    \/ \E t \in Threads : WFSSync(t, "WFSExecute", 1)
    \/ \E t \in Threads : call_async(t)

\* The app-handle table of xfs_mgr/lib.rs with the started flag and the
\* blocked-thread map.
SpecAppHandles == Init /\ [][AppHandlesNext]_vars

\* C24 as stated, on lib.rs: when WFSCleanUp has returned WFS_SUCCESS every
\* session entry is empty, every app-handle slot is unclaimed, every timer
\* slot is empty, the buffer map holds no allocation and the manager is not
\* started.
C24_CleanUpResetsAllTables ==
    [][(MStep("WFSCleanUp") /\ mcall'.ret = "WFS_SUCCESS")
       => /\ \A i \in ServiceSlots : SERVICES'[i] = None
          /\ \A i \in AppSlots : ~APP_HANDLES'[i]
          /\ \A i \in DOMAIN TIMERS' : TIMERS'[i] = NULL
          /\ BUFFERS' = <<>>
          /\ ~STARTED']_vars

\* C25 as stated, on lib.rs: on a started manager and a thread with no
\* blocking call, WFSDestroyAppHandle succeeds for the handle of a claimed
\* slot, which it unclaims, and for every other value (null, below or past
\* the table, an unclaimed slot) returns WFS_ERR_INVALID_APP_HANDLE and
\* leaves the table as it was.
C25_DestroyRejectsUnclaimed ==
    [][(/\ MStep("WFSDestroyAppHandle")
        /\ STARTED
        /\ mcall'.thread \notin DOMAIN BLOCKED_THREADS)
       => LET index == mcall'.h - APP_BASE
          IN IF index \in AppSlots /\ APP_HANDLES[index]
             THEN /\ mcall'.ret = "WFS_SUCCESS"
                  /\ APP_HANDLES' = [APP_HANDLES EXCEPT ![index] = FALSE]
             ELSE /\ mcall'.ret = "WFS_ERR_INVALID_APP_HANDLE"
                  /\ UNCHANGED APP_HANDLES]_vars

\* The handles of the claimed slots.
LiveAppHandles == {APP_BASE + i : i \in {j \in AppSlots : APP_HANDLES[j]}}

\* C26: a WFSCreateAppHandle that succeeds claims the lowest unclaimed slot
\* and nothing else, and writes a non-null handle that is the address of
\* that slot and so differs from the handle of every slot claimed at the
\* time; a successful WFSDestroyAppHandle unclaims exactly the slot its
\* handle is the address of. Each call runs under the table's mutex, so
\* concurrent calls are a sequence of these steps.
C26_CreateClaimsLowestSlot ==
    [][/\ (MStep("WFSCreateAppHandle") /\ mcall'.ret = "WFS_SUCCESS")
          => LET hApp == mcall'.out_h[1]
                 index == hApp - APP_BASE
             IN /\ hApp # NULL
                /\ hApp \notin LiveAppHandles
                /\ index \in AppSlots
                /\ \A j \in AppSlots : j < index => APP_HANDLES[j]
                /\ APP_HANDLES' = [APP_HANDLES EXCEPT ![index] = TRUE]
       /\ (MStep("WFSDestroyAppHandle") /\ mcall'.ret = "WFS_SUCCESS")
          => APP_HANDLES' = [APP_HANDLES EXCEPT ![mcall'.h - APP_BASE] = FALSE]
      ]_vars

\* C26 witness: with a higher slot claimed, the lowest slot was destroyed
\* and a later create has handed out its handle again.
C26_Witness ==
    /\ mcall.op = "WFSCreateAppHandle"
    /\ mcall.out_h = Some(APP_BASE)
    /\ APP_HANDLES[0]
    /\ APP_HANDLES[MaxAppHandles - 1]

(***************************************************************************)
(* xfs_mgr/src/lib.rs and window.rs: call_async with its wait loop, and the *)
(* blocking hook                                                           *)
(***************************************************************************)

\* Number of blocking hooks an application installs in the model.
MaxHooks == 2

\* Addresses of the application's blocking hooks.
Hooks == 1..MaxHooks

\* Number of synchronous calls one thread makes in the model.
MaxCalls == 2

\* Positions of a thread inside call_async (lib.rs:1063-1089): at the top
\* of the loop, and inside the blocking hook.
AtLoop == "loop"

InHook == "hook"

\* A thread inside Mutex::lock of BLOCKING_HOOK in the entry point named.
LockWait(op) == op

\* A request as async_fn dispatched it: the thread of the wrapper and the
\* window handed to the provider for the completion.
Request(thread, hwnd) == [thread |-> thread, hwnd |-> hwnd]

\* A completion message as the provider posts it: the WFSRESULT of request
\* r with its hResult.
Completion(r, hResult) == [thread |-> r.thread, hwnd |-> r.hwnd, hResult |-> hResult]

\* An endpoint shared by every call.
shared_window(r) == CHOOSE t \in Threads : TRUE

\* The thread whose SyncWindow has the handle given to the provider with
\* request r (window.handle(), lib.rs:1057).
window_of(r) == r.thread

\* A loop that looks for the completion before the cancel flag.
receive_first(flag, receiver) ==
    IF receiver # <<>> THEN "receive" ELSE IF flag THEN "cancel" ELSE "loop"

\* lib.rs:1074-1088: the order of the two checks after the hook.
after_hook(flag, receiver) ==
    IF flag THEN "cancel" ELSE IF receiver # <<>> THEN "receive" ELSE "loop"

\* lib.rs:1053-1061 call_async up to the loop, for every async_fn: the
\* window is created, async_fn is given its handle and returns `result`,
\* having dispatched a request when that is WFS_SUCCESS; any other result
\* is returned, the thread staying in BLOCKED_THREADS.
call_async_dispatch(t, result) ==
    /\ UNCHANGED <<heapVars, timerVars, SERVICES, STARTED, BLOCKED_THREADS,
                   APP_HANDLES, BUFFERS, BLOCKING_HOOK, locks>>
    /\ wpc[t] \in SyncOps
    /\ LET hwnd == windows[t].hwnd + 1
       IN IF result # "WFS_SUCCESS"
          THEN /\ windows' = [windows EXCEPT ![t] = SyncWindow(hwnd, FALSE, <<>>)]
               /\ wpc' = [wpc EXCEPT ![t] = NoWrapper]
               /\ Returns(wpc[t], t, NULL, result)
               /\ UNCHANGED requests
          ELSE /\ windows' = [windows EXCEPT ![t] = SyncWindow(hwnd, TRUE, <<>>)]
               /\ requests' = requests \cup {Request(t, hwnd)}
               /\ wpc' = [wpc EXCEPT ![t] = AtLoop]
               /\ Returns(wpc[t], t, NULL, "PENDING")

\* lib.rs:1063-1072: the guard of BLOCKING_HOOK is taken in the scrutinee of
\* the match and lives until the match ends, so the hook (the installed one,
\* or default_block_hook, lib.rs:1092-1099, which parks in GetMessageW)
\* runs with the mutex held. out_h: the hook called (NULL: the default).
block_hook(t) ==
    /\ UNCHANGED <<heapVars, timerVars, SERVICES, STARTED, BLOCKED_THREADS,
                   APP_HANDLES, BUFFERS, BLOCKING_HOOK, windows, requests>>
    /\ wpc[t] = AtLoop
    /\ locks["BLOCKING_HOOK"] = NoThread
    /\ locks' = [locks EXCEPT !["BLOCKING_HOOK"] = t]
    /\ wpc' = [wpc EXCEPT ![t] = InHook]
    /\ mcall' = MCall("block_hook", t, NULL, "PENDING",
                      IF BLOCKING_HOOK = None THEN Some(NULL) ELSE BLOCKING_HOOK,
                      None, None)

\* lib.rs:1072-1088: the hook returns, the guard is dropped, and the cancel
\* flag and then the receiver are looked at. Returning drops the window
\* (window.rs:119-125); only the cancel branch removes the thread.
call_async_loop(t) ==
    /\ UNCHANGED <<heapVars, timerVars, SERVICES, STARTED,
                   APP_HANDLES, BUFFERS, BLOCKING_HOOK, requests>>
    /\ wpc[t] = InHook
    /\ locks' = [locks EXCEPT !["BLOCKING_HOOK"] = NoThread]
    /\ LET window == windows[t]
           flag == IF t \in DOMAIN BLOCKED_THREADS THEN BLOCKED_THREADS[t] ELSE FALSE
           next == after_hook(flag, window.receiver)
       IN IF next = "cancel"
          THEN /\ BLOCKED_THREADS' = MapRemove(BLOCKED_THREADS, t)
               /\ windows' = [windows EXCEPT ![t].alive = FALSE]
               /\ wpc' = [wpc EXCEPT ![t] = NoWrapper]
               /\ Returns("call_async", t, NULL, "WFS_ERR_CANCELED")
          ELSE IF next = "receive"
          THEN /\ windows' = [windows EXCEPT ![t] =
                                SyncWindow(window.hwnd, FALSE, Tail(window.receiver))]
               /\ wpc' = [wpc EXCEPT ![t] = NoWrapper]
               /\ mcall' = MCall("call_async", t, NULL, Head(window.receiver).hResult,
                                 None, None, Some(Head(window.receiver)))
               /\ UNCHANGED BLOCKED_THREADS
          ELSE /\ wpc' = [wpc EXCEPT ![t] = AtLoop]
               /\ Returns("call_async", t, NULL, "PENDING")
               /\ UNCHANGED <<BLOCKED_THREADS, windows>>

\* The provider completes request r: it posts the completion message to the
\* window it was given; wndproc and the filter thread (window.rs:85-94,
\* 129-149) pass it to the receiver of that window. A message posted to a
\* window that was dropped is lost.
WFPPostCompletion(r, hResult) ==
    /\ UNCHANGED <<heapVars, timerVars, SERVICES, STARTED, BLOCKED_THREADS, wpc,
                   APP_HANDLES, BUFFERS, BLOCKING_HOOK, locks>>
    /\ r \in requests
    /\ requests' = requests \ {r}
    /\ Returns("WFPPostCompletion", r.thread, NULL, hResult)
    /\ LET t == window_of(r)
       IN windows' = IF windows[t].alive /\ windows[t].hwnd = r.hwnd
                     THEN [windows EXCEPT ![t].receiver =
                             Append(@, Completion(r, hResult))]
                     ELSE windows

\* lib.rs:659-677 WFSSetBlockingHook. lppPrevFunc: what the caller's
\* variable holds before the call; out_h: what it holds after it. Nothing
\* is written when no hook was installed. A thread that finds the mutex
\* taken stays in Mutex::lock and goes on from there.
WFSSetBlockingHook(t, lpBlockFunc, lppPrevFunc) ==
    /\ UNCHANGED <<heapVars, timerVars, SERVICES, STARTED, BLOCKED_THREADS,
                   APP_HANDLES, BUFFERS, locks, windows, requests>>
    /\ wpc[t] \in {NoWrapper, LockWait("WFSSetBlockingHook")}
    /\ wpc[t] = LockWait("WFSSetBlockingHook") => locks["BLOCKING_HOOK"] = NoThread
    /\ IF wpc[t] = NoWrapper /\ ~STARTED
       THEN /\ Returns("WFSSetBlockingHook", t, lpBlockFunc, "WFS_ERR_NOT_STARTED")
            /\ UNCHANGED <<BLOCKING_HOOK, wpc>>
       ELSE IF wpc[t] = NoWrapper /\ t \in DOMAIN BLOCKED_THREADS
       THEN /\ Returns("WFSSetBlockingHook", t, lpBlockFunc, "WFS_ERR_OP_IN_PROGRESS")
            /\ UNCHANGED <<BLOCKING_HOOK, wpc>>
       ELSE IF locks["BLOCKING_HOOK"] # NoThread
       THEN /\ Returns("WFSSetBlockingHook", t, lpBlockFunc, "PENDING")
            /\ wpc' = [wpc EXCEPT ![t] = LockWait("WFSSetBlockingHook")]
            /\ UNCHANGED BLOCKING_HOOK
       ELSE /\ BLOCKING_HOOK' = Some(lpBlockFunc)
            /\ wpc' = [wpc EXCEPT ![t] = NoWrapper]
            /\ mcall' = MCall("WFSSetBlockingHook", t, lpBlockFunc, "WFS_SUCCESS",
                              IF BLOCKING_HOOK = None THEN Some(lppPrevFunc)
                              ELSE BLOCKING_HOOK,
                              None, None)

\* lib.rs:723-730 WFSUnhookBlockingHook.
WFSUnhookBlockingHook(t) ==
    /\ UNCHANGED <<heapVars, timerVars, SERVICES, STARTED, BLOCKED_THREADS,
                   APP_HANDLES, BUFFERS, locks, windows, requests>>
    /\ wpc[t] \in {NoWrapper, LockWait("WFSUnhookBlockingHook")}
    /\ wpc[t] = LockWait("WFSUnhookBlockingHook") => locks["BLOCKING_HOOK"] = NoThread
    /\ IF wpc[t] = NoWrapper /\ ~STARTED
       THEN /\ Returns("WFSUnhookBlockingHook", t, NULL, "WFS_ERR_NOT_STARTED")
            /\ UNCHANGED <<BLOCKING_HOOK, wpc>>
       ELSE IF wpc[t] = NoWrapper /\ t \in DOMAIN BLOCKED_THREADS
       THEN /\ Returns("WFSUnhookBlockingHook", t, NULL, "WFS_ERR_OP_IN_PROGRESS")
            /\ UNCHANGED <<BLOCKING_HOOK, wpc>>
       ELSE IF locks["BLOCKING_HOOK"] # NoThread
       THEN /\ Returns("WFSUnhookBlockingHook", t, NULL, "PENDING")
            /\ wpc' = [wpc EXCEPT ![t] = LockWait("WFSUnhookBlockingHook")]
            /\ UNCHANGED BLOCKING_HOOK
       ELSE /\ BLOCKING_HOOK' = None
            /\ wpc' = [wpc EXCEPT ![t] = NoWrapper]
            /\ Returns("WFSUnhookBlockingHook", t, NULL, "WFS_SUCCESS")

CallAsyncNext ==
    \/ \E t \in Threads : WFSStartUp(t, TRUE)
    \/ \E t \in Threads :
         /\ windows[t].hwnd < MaxCalls
         /\ WFSSync(t, "WFSExecute", 1)
    \/ \E t \in Threads, result \in ProviderResults : call_async_dispatch(t, result)
    \/ \E t \in Threads : block_hook(t)
    \/ \E t \in Threads : call_async_loop(t)
    \/ \E r \in requests, hResult \in ProviderResults : WFPPostCompletion(r, hResult)
    \/ \E t \in Threads, dwThreadID \in Threads : WFSCancelBlockingCall(t, dwThreadID)
    \/ \E t \in Threads, lpBlockFunc \in Hooks, lppPrevFunc \in {NULL} \cup Hooks :
         WFSSetBlockingHook(t, lpBlockFunc, lppPrevFunc)
    \/ \E t \in Threads : WFSUnhookBlockingHook(t)

\* call_async for every async_fn, with the blocking hook, the blocked-thread
\* map and the windows of the synchronous calls.
SpecCallAsync == Init /\ [][CallAsyncNext]_vars

\* The cancel flag of thread t is set.
CancelFlag(t) == t \in DOMAIN BLOCKED_THREADS /\ BLOCKED_THREADS[t]

C22_HookIsSwappedCell ==
    [][/\ (MStep("WFSSetBlockingHook") /\ mcall'.ret = "WFS_SUCCESS")
          => /\ BLOCKING_HOOK' = Some(mcall'.h)
             /\ mcall'.out_h = IF BLOCKING_HOOK = None THEN Some(NULL)
                               ELSE BLOCKING_HOOK
       /\ (MStep("WFSUnhookBlockingHook") /\ mcall'.ret = "WFS_SUCCESS")
          => BLOCKING_HOOK' = None
       /\ MStep("block_hook")
          => mcall'.out_h = IF BLOCKING_HOOK = None THEN Some(NULL)
                            ELSE BLOCKING_HOOK]_vars

InProvider == "provider"

\* manager.rs:195-247 register .. unlock on thread t, up to the provider
\* entry: `let mut services = services!()` is taken first and the guard
\* lives to the end of the function, so the entry runs with the mutex held.
\* A thread that finds the mutex taken stays in services!() and goes on
\* from there.
manager_call(t, op, h_service, export) ==
    /\ UNCHANGED <<heapVars, timerVars, STARTED, BLOCKED_THREADS,
                   APP_HANDLES, BUFFERS, BLOCKING_HOOK, windows, requests>>
    /\ wpc[t] \in {NoWrapper, LockWait(op)}
    /\ wpc[t] = LockWait(op) => locks["SERVICES"] = NoThread
    /\ IF locks["SERVICES"] # NoThread
       THEN /\ wpc' = [wpc EXCEPT ![t] = LockWait(op)]
            /\ Returns(op, t, h_service, "PENDING")
            /\ UNCHANGED <<SERVICES, locks>>
       ELSE IF h_service \notin ServiceSlots \/ SERVICES[h_service] = None
       THEN /\ wpc' = [wpc EXCEPT ![t] = NoWrapper]
            /\ Returns(op, t, h_service, "WFS_ERR_INVALID_HSERVICE")
            /\ UNCHANGED <<SERVICES, locks>>
       ELSE IF ~export
       THEN /\ wpc' = [wpc EXCEPT ![t] = NoWrapper]
            /\ Returns(op, t, h_service, "WFS_ERR_INTERNAL_ERROR")
            /\ UNCHANGED <<SERVICES, locks>>
       ELSE LET service == SERVICES[h_service][1]
                id == wrapping_add(service.request_id)
            IN /\ SERVICES' = [SERVICES EXCEPT ![h_service] =
                                 Some(Service(service.service_id, id))]
               /\ locks' = [locks EXCEPT !["SERVICES"] = t]
               /\ wpc' = [wpc EXCEPT ![t] = InProvider]
               /\ mcall' = MCall(op, t, h_service, "PENDING", None, Some(id),
                                 Invoked(op, service.service_id, id, "PENDING"))

\* The provider entry of thread t returns `result`; the manager function
\* returns it and its guard is dropped.
provider_returns(t, result) ==
    /\ UNCHANGED <<heapVars, timerVars, SERVICES, STARTED, BLOCKED_THREADS,
                   APP_HANDLES, BUFFERS, BLOCKING_HOOK, windows, requests>>
    /\ wpc[t] = InProvider
    /\ locks' = [locks EXCEPT !["SERVICES"] = NoThread]
    /\ wpc' = [wpc EXCEPT ![t] = NoWrapper]
    /\ Returns("provider_returns", t, NULL, result)

\* manager.rs:119-125 release_dll called by the provider from inside its
\* entry point, on the thread that holds the guard: services!() locks a
\* std Mutex its thread already holds, which does not return (it deadlocks
\* or panics); the statements after it are not reached.
release_dll(t, panics) ==
    /\ UNCHANGED <<heapVars, timerVars, SERVICES, STARTED, BLOCKED_THREADS,
                   APP_HANDLES, BUFFERS, BLOCKING_HOOK, locks, windows, requests>>
    /\ wpc[t] = InProvider
    /\ wpc' = [wpc EXCEPT ![t] = LockWait("release_dll")]
    /\ Returns("release_dll", t, NULL, IF panics THEN "PANIC" ELSE "PENDING")

ProviderNext ==
    \/ \E fault \in OpenFaults, result \in ProviderResults :
         /\ locks["SERVICES"] = NoThread
         /\ open_service(fault, result)
    \/ \E t \in Threads, op \in ManagerOps, h_service \in HServices,
          export \in BOOLEAN :
         manager_call(t, op, h_service, export)
    \/ \E t \in Threads, result \in ProviderResults : provider_returns(t, result)
    \/ \E t \in Threads, panics \in BOOLEAN : release_dll(t, panics)

\* The session table of manager.rs with the provider entry as a step of
\* its own.
SpecProvider == Init /\ [][ProviderNext]_vars

\* C28 as stated, on manager.rs: while a thread is inside a provider entry
\* point, no mutex of the manager is held for it: no other thread is parked
\* at the SERVICES mutex, and the thread itself is not parked there in a
\* call it made back into the manager.
C28_NoLockDuringProviderCall ==
    \A a \in Threads :
      (wpc[a] = InProvider \/ locks["SERVICES"] = a)
      => \A b \in Threads :
           wpc[b] \notin {LockWait(op) : op \in ManagerOps \cup {"release_dll"}}

(***************************************************************************)
(* Heap of supp.rs: the same table and counter behind other entry points   *)
(***************************************************************************)

\* supp::allocate_more -> Heap::allocate_more, under HEAP's mutex.  The
\* output slot is tested for null and written on success; it is never read.
supp_allocate_more(ul_size, lpv_original, dataNull, cur) ==
    /\ UNCHANGED <<timerVars, mgrVars, libVars>>
    /\ IF dataNull \/ lpv_original = NULL
       THEN HReject("allocate_more", ul_size, lpv_original, dataNull, cur,
                    "WFS_ERR_INVALID_POINTER")
       ELSE IF lpv_original \notin DOMAIN allocations
       THEN HReject("allocate_more", ul_size, lpv_original, dataNull, cur,
                    "WFS_ERR_INVALID_BUFFER")
       ELSE LET flags == allocations[lpv_original].flags
                r == try_allocate(total_bytes, ul_size)
            IN IF ~r.ok
               THEN HOutOfMemory("allocate_more", ul_size, lpv_original, dataNull, cur, r)
               ELSE /\ Len(allocations[lpv_original].child) < MaxChild
                    /\ \E pointer \in NewPointers(ul_size) :
                         /\ allocations' =
                              [allocations EXCEPT ![lpv_original].child =
                                 Append(@, Allocation(pointer, ul_size, flags))]
                         /\ total_bytes' = r.total
                         /\ hcall' = HCall("allocate_more", ul_size, lpv_original,
                                           dataNull, cur, "WFS_SUCCESS", pointer)
                         /\ freed' = freed \ {pointer}
                         /\ former' = former \ {pointer}
                         /\ UNCHANGED handed

\* allocate_buffer and free_buffer of supp.rs are those of heap.rs line for
\* line: null test, lock, Heap::allocate_buffer / Heap::deallocate.
SuppHeapNext ==
    \/ \E size \in Sizes, flags \in Flags, dataNull \in BOOLEAN :
         AllocateBuffer(size, flags, dataNull)
    \/ \E size \in Sizes, original \in Pointers, dataNull \in BOOLEAN :
         \E cur \in (IF dataNull THEN {NULL} ELSE {NULL, original}) :
            supp_allocate_more(size, original, dataNull, cur)
    \/ \E data \in Pointers : FreeBuffer(data)

SpecSuppHeap == Init /\ [][SuppHeapNext]_vars

\* A heap call whose pointer arguments break a precondition: a null output
\* slot, a null parent, or an output slot that holds the parent pointer.
BadPointerCall ==
    \/ hcall'.op = "allocate" /\ hcall'.dataNull
    \/ /\ hcall'.op = "allocate_more"
       /\ \/ hcall'.dataNull
          \/ hcall'.original = NULL
          \/ hcall'.cur = hcall'.original

\* C38: allocate with a null output slot, allocate_more with a null output
\* slot or a null parent, and allocate_more whose output slot holds the
\* parent pointer return WFS_ERR_INVALID_POINTER and leave the counter and
\* all allocations as they were.
C38_PointerChecksBeforeMutation ==
    [][BadPointerCall =>
          /\ hcall'.ret = "WFS_ERR_INVALID_POINTER"
          /\ HeapUnchanged]_vars

\* C40: a successful allocate, of any size, leaves every root that was live
\* before the call in the table under its own pointer, with its children.
C40_AllocateKeepsLiveRoots ==
    [][(hcall'.op = "allocate" /\ hcall'.ret = "WFS_SUCCESS") =>
          \A p \in DOMAIN allocations :
             /\ p \in DOMAIN allocations'
             /\ allocations'[p] = allocations[p]]_vars

(***************************************************************************)
(* release_dll of manager.rs: the slot index is recomputed from addresses  *)
(***************************************************************************)

\* Address of the Vec<Option<Service>> behind the SERVICES mutex, which
\* release_dll takes as the base of its subtraction.
SERVICES_ADDR == 1

\* Addresses the local `service` of open_service can have relative to that
\* Vec: below it, at a distance smaller than the table's length, beyond.
LocalAddrs == (SERVICES_ADDR - 1)..(SERVICES_ADDR + MaxServices)

\* service.rs:53: the hProvider argument of WFPOpen is `self as *const
\* Service`, and self is the local `service` of open_service, which is moved
\* into the table after WFPOpen has returned.  The value does not depend on
\* the slot.
hProvider(service_index, local) == local

\* manager.rs:119-125 release_dll, called with the value WFPOpen of session
\* service_index was given, from outside every provider entry.  The usize
\* subtraction of a smaller address panics or wraps to an index beyond the
\* table, and the indexing panics for every index beyond the table.
ReleaseDLL(service_index, local) ==
    /\ UNCHANGED <<heapVars, timerVars, libVars, STARTED, BLOCKED_THREADS, wpc>>
    /\ SERVICES[service_index] # None
    /\ LET h_provider == hProvider(service_index, local)
           index == h_provider - SERVICES_ADDR
       IN IF index \notin ServiceSlots
          THEN /\ mcall' = MCall("release_dll", "none", service_index, "PANIC",
                                 None, None, None)
               /\ UNCHANGED SERVICES
          ELSE /\ mcall' = MCall("release_dll", "none", service_index,
                                 "WFS_SUCCESS", None, None, None)
               /\ SERVICES' = [SERVICES EXCEPT ![index] = None]

ReleaseNext ==
    \/ \E fault \in OpenFaults, result \in ProviderResults :
         open_service(fault, result)
    \/ \E op \in ManagerOps, h_service \in HServices, export \in BOOLEAN,
          result \in ProviderResults :
         manager_request(op, h_service, export, result)
    \/ \E service_index \in ServiceSlots, local \in LocalAddrs :
         ReleaseDLL(service_index, local)

SpecRelease == Init /\ [][ReleaseNext]_vars

\* C31: a release request carrying the context value WFPOpen of session s
\* was given succeeds and empties the slot of s and no other slot, and an
\* operation on a session whose slot is empty fails with
\* WFS_ERR_INVALID_HSERVICE.
C31_ReleaseDestroysItsSession ==
    [][/\ MStep("release_dll") =>
            /\ mcall'.ret = "WFS_SUCCESS"
            /\ SERVICES' = [SERVICES EXCEPT ![mcall'.h] = None]
       /\ (mcall'.op \in ManagerOps /\ mcall'.h \in ServiceSlots
             /\ SERVICES[mcall'.h] = None) =>
            mcall'.ret = "WFS_ERR_INVALID_HSERVICE"]_vars

\* C37: an operation dispatched on a session whose counter holds the top
\* value does not fail or abort because of the counter, and the request id
\* it hands out is 0.
C37_CounterWrapsToZero ==
    [][(/\ mcall'.op \in AsyncOps
        /\ STARTED
        /\ mcall'.thread \notin DOMAIN BLOCKED_THREADS
        /\ mcall'.h - 1 \in ServiceSlots
        /\ SERVICES[mcall'.h - 1] # None
        /\ SERVICES[mcall'.h - 1][1].request_id = REQUESTID_MAX) =>
          /\ mcall'.ret # "PANIC"
          /\ mcall'.out_req = Some(0)
          /\ SERVICES'[mcall'.h - 1][1].request_id = 0]_vars

(***************************************************************************)
(* Table exhaustion: the app-handle table and the session table of lib.rs  *)
(***************************************************************************)

ExhaustNext ==
    \/ \E t \in Threads, valid \in BOOLEAN : WFSStartUp(t, valid)
    \/ \E t \in Threads : WFSCleanUp(t)
    \/ \E t \in Threads, fault \in OpenFaults \ {"null_pointer"},
          result \in ProviderResults :
         WFSAsyncOpen(t, fault, result)
    \/ \E t \in Threads : WFSCreateAppHandle(t)
    \/ \E t \in Threads, hApp \in HApps, overflow_checks \in BOOLEAN :
         WFSDestroyAppHandle(t, hApp, overflow_checks)

SpecExhaust == Init /\ [][ExhaustNext]_vars

\* A call of op that got past the started and blocked-thread gates.
Admitted(op) ==
    /\ MStep(op)
    /\ STARTED
    /\ mcall'.thread \notin DOMAIN BLOCKED_THREADS

AppHandlesFull == \A i \in AppSlots : APP_HANDLES[i]

ServicesFull == \A i \in ServiceSlots : SERVICES[i] # None

\* An open on a full session table fails with WFS_ERR_INTERNAL_ERROR, or
\* with WFS_ERR_INVALID_SERVPROV when the configuration lookup, which comes
\* first, fails; nothing changes and no provider entry is invoked.
OpenOnFullTable ==
    (Admitted("WFSAsyncOpen") /\ ServicesFull) =>
       /\ mcall'.ret \in {"WFS_ERR_INTERNAL_ERROR", "WFS_ERR_INVALID_SERVPROV"}
       /\ mcall'.prov = None
       /\ UNCHANGED <<APP_HANDLES, SERVICES>>

\* A create on a full app-handle table fails with the code `ret`; nothing
\* changes and no provider entry is invoked.
CreateOnFullTable(ret) ==
    (Admitted("WFSCreateAppHandle") /\ AppHandlesFull) =>
       /\ mcall'.ret = ret
       /\ mcall'.out_h = None
       /\ mcall'.prov = None
       /\ UNCHANGED <<APP_HANDLES, SERVICES>>

Occupied(services) == {i \in DOMAIN services : services[i] # None}

\* C35: an operation that returns WFS_ERR_INTERNAL_ERROR without having
\* reached a provider entry (the export it needs is missing) leaves the set
\* of occupied session entries as it was; for an open this means that no
\* entry stays occupied by the failed session.
C35_MissingExportKeepsTables ==
    [][(/\ mcall'.op \in AsyncOps \cup {"WFSAsyncOpen"}
        /\ mcall'.ret = "WFS_ERR_INTERNAL_ERROR"
        /\ mcall'.prov = None) =>
          Occupied(SERVICES') = Occupied(SERVICES)]_vars

\* C32: every completion posted by a firing carries the context of a timer
\* whose set_timer succeeded, to the endpoint that set_timer call was given,
\* with the id that call returned.
C32_CompletionPairsOneSetTimer ==
    \A m \in posted :
       /\ boxes[m.context].set
       /\ boxes[m.context].hwnd = m.hwnd
       /\ boxes[m.context].id = m.id

\* The code the claim gives a set_timer call in which exactly one thing is
\* wrong; "none" when nothing or more than one thing is.
ClaimedSetTimerCode(hwnd, idNull, dw_time_val, full) ==
    IF hwnd \in Windows /\ ~idNull /\ dw_time_val = 0 /\ ~full
    THEN "WFS_ERR_INVALID_DATA"
    ELSE IF hwnd = "null" /\ ~idNull /\ dw_time_val # 0 /\ ~full
    THEN "WFS_ERR_INVALID_HWND"
    ELSE IF hwnd \in Windows /\ idNull /\ dw_time_val # 0 /\ ~full
    THEN "WFS_ERR_INVALID_POINTER"
    ELSE IF hwnd \in Windows /\ ~idNull /\ dw_time_val # 0 /\ full
    THEN "WFS_ERR_INTERNAL_ERROR"
    ELSE IF hwnd = "stale" /\ ~idNull /\ dw_time_val # 0 /\ ~full
    THEN "WFS_ERR_INTERNAL_ERROR"
    ELSE "none"

\* C33: a set_timer of timer.rs that fails leaves the table as it was and
\* writes no id, and a call in which one thing is wrong returns the code of
\* that thing: interval 0 WFS_ERR_INVALID_DATA, null window
\* WFS_ERR_INVALID_HWND, null id pointer WFS_ERR_INVALID_POINTER, full table
\* or refused platform timer WFS_ERR_INTERNAL_ERROR.
C33_FailingSetTimerKeepsTable ==
    [][\A hwnd \in Hwnds, idNull \in BOOLEAN, dw_time_val \in {0, 1} :
         (TimerRsSetTimer(hwnd, idNull, dw_time_val) /\ tcall'.ret # "WFS_SUCCESS") =>
            LET full == \A i \in DOMAIN TIMERS : TIMERS[i] # NULL
                code == ClaimedSetTimerCode(hwnd, idNull, dw_time_val, full)
            IN /\ TIMERS' = TIMERS
               /\ tcall'.id = NULL
               /\ code # "none" => tcall'.ret = code]_vars

\* C39: a kill_timer(id) that returns WFS_SUCCESS leaves the table with
\* entry id empty and every other entry as it was: the table keeps its
\* length and every other timer stays under the id its set_timer returned.
C39_KillTimerEmptiesItsSlotOnly ==
    [][(TStep("kill_timer") /\ tcall'.ret = "WFS_SUCCESS") =>
          TIMERS' = [TIMERS EXCEPT ![tcall'.id] = NULL]]_vars

(***************************************************************************)
(* The completion message each synchronous wrapper waits for               *)
(***************************************************************************)

Wrappers == {"WFSOpen", "WFSClose", "WFSLock", "WFSUnlock", "WFSRegister",
             "WFSDeregister", "WFSExecute", "WFSGetInfo"}

\* constants.rs:22-29: the completion message of each operation class.
completion_message(op) ==
    CASE op = "WFSOpen" -> "WFS_OPEN_COMPLETE"
      [] op = "WFSClose" -> "WFS_CLOSE_COMPLETE"
      [] op = "WFSLock" -> "WFS_LOCK_COMPLETE"
      [] op = "WFSUnlock" -> "WFS_UNLOCK_COMPLETE"
      [] op = "WFSRegister" -> "WFS_REGISTER_COMPLETE"
      [] op = "WFSDeregister" -> "WFS_DEREGISTER_COMPLETE"
      [] op = "WFSGetInfo" -> "WFS_GETINFO_COMPLETE"
      [] op = "WFSExecute" -> "WFS_EXECUTE_COMPLETE"

Messages == {completion_message(op) : op \in Wrappers}

\* The first argument each wrapper of lib.rs gives call_async.
call_async_message(op) ==
    CASE op = "WFSOpen" -> "WFS_OPEN_COMPLETE"
      [] op = "WFSClose" -> "WFS_CLOSE_COMPLETE"
      [] op = "WFSLock" -> "WFS_LOCK_COMPLETE"
      [] op = "WFSUnlock" -> "WFS_GETINFO_COMPLETE"
      [] op = "WFSRegister" -> "WFS_GETINFO_COMPLETE"
      [] op = "WFSDeregister" -> "WFS_DEREGISTER_COMPLETE"
      [] op = "WFSGetInfo" -> "WFS_GETINFO_COMPLETE"
      [] op = "WFSExecute" -> "WFS_EXECUTE_COMPLETE"

\* SyncWindow::new(message): the window with the message its filter thread
\* lets through to the receiver.
FilterWindow(hwnd, message, alive, receiver) ==
    [hwnd |-> hwnd, alive |-> alive, receiver |-> receiver, message |-> message]

\* A wrapper up to the loop of call_async, its asynchronous form having
\* dispatched the request: the window is created for the wrapper's message
\* and the provider has its handle.
sync_wrapper(t, op) ==
    /\ UNCHANGED <<heapVars, timerVars, SERVICES, STARTED, BLOCKED_THREADS,
                   APP_HANDLES, BUFFERS, BLOCKING_HOOK, locks>>
    /\ wpc[t] = NoWrapper
    /\ windows[t].hwnd < MaxCalls
    /\ LET hwnd == windows[t].hwnd + 1
       IN /\ windows' = [windows EXCEPT ![t] =
                           FilterWindow(hwnd, call_async_message(op), TRUE, <<>>)]
          /\ requests' = requests \cup {[thread |-> t, hwnd |-> hwnd, op |-> op]}
          /\ wpc' = [wpc EXCEPT ![t] = op]
          /\ Returns(op, t, NULL, "PENDING")

\* The provider posts `message` for request r to the window it was given;
\* wndproc sends every message to the filter thread (window.rs:129-149),
\* which passes it on when received.message == message (window.rs:85-93).
PostMessage(r, message, hResult) ==
    /\ UNCHANGED <<heapVars, timerVars, SERVICES, STARTED, BLOCKED_THREADS, wpc,
                   APP_HANDLES, BUFFERS, BLOCKING_HOOK, locks>>
    /\ r \in requests
    /\ requests' = requests \ {r}
    /\ mcall' = MCall("PostMessage", r.thread, r.hwnd, hResult, None, None,
                      Some([op |-> r.op, message |-> message]))
    /\ LET window == windows[r.thread]
       IN windows' = IF /\ window.alive
                        /\ window.hwnd = r.hwnd
                        /\ message = window.message
                     THEN [windows EXCEPT ![r.thread].receiver =
                             Append(@, [message |-> message, hResult |-> hResult])]
                     ELSE windows

\* lib.rs:1074-1088: the receiver holds a message; the wrapper returns its
\* hResult and the window is dropped.
call_async_receive(t) ==
    /\ UNCHANGED <<heapVars, timerVars, SERVICES, STARTED, BLOCKED_THREADS,
                   APP_HANDLES, BUFFERS, BLOCKING_HOOK, locks, requests>>
    /\ wpc[t] \in Wrappers
    /\ windows[t].receiver # <<>>
    /\ windows' = [windows EXCEPT ![t].alive = FALSE, ![t].receiver = <<>>]
    /\ wpc' = [wpc EXCEPT ![t] = NoWrapper]
    /\ Returns(wpc[t], t, NULL, Head(windows[t].receiver).hResult)

CompletionNext ==
    \/ \E t \in Threads, op \in Wrappers : sync_wrapper(t, op)
    \/ \E r \in requests, message \in Messages, hResult \in ProviderResults :
         PostMessage(r, message, hResult)
    \/ \E t \in Threads : call_async_receive(t)

SpecCompletion == Init /\ [][CompletionNext]_vars

====
